---- MODULE Spec2Model ----
(***************************************************************************)
(* Model of the trading-book risk core: src/portfolio/book.py (Position,   *)
(* TradingBook), src/hedging/engine.py (HedgeRule, _clamp, _beta,          *)
(* build_hedges), the rolling backtest and the coverage tests of           *)
(* pages/4_backtesting.py, the historical VaR / ES of book.py,             *)
(* pages/3_VaR.py, pages/6_Risk_Limits.py and src/risk/var.py.             *)
(*                                                                         *)
(* Python floats are modelled as exact rationals <<num, den>> in lowest    *)
(* terms with den > 0; the missing value (NaN) is <<0, 0>>.                *)
(***************************************************************************)
EXTENDS Integers, Sequences, FiniteSets, TLC

VARIABLES
    positions,   \* TradingBook.positions: sequence of Position records
    factor_df,   \* the factor table handed to the core, or None
    exposures,   \* last result of exposure_by_factor (a dict)
    pnl,         \* last result of pnl_matrix (a table)
    port,        \* last result of portfolio_pnl (a series)
    rules,       \* the HedgeRule list handed to build_hedges
    hedges,      \* last result of build_hedges (a list of Position)
    pnl_in,      \* the PnL series handed to rolling_var_es
    window,      \* its window argument
    alpha,       \* its alpha argument
    roll,        \* last result of rolling_var_es (a table VaR/ES)
    op,          \* the operation that produced the current state
    saved,       \* what the caller kept from before the last edit
    var_out,     \* last result of TradingBook.historical_var
    es_out,      \* last result of historical_es (VaR page)
    limits_out,  \* last VaR / ES of the Risk Limits page
    risk_var,    \* last outcome of src/risk/var.py historical_var
    beta_out,    \* last result of _beta
    breach,      \* the Breach column of the backtest
    exceed,      \* the boolean array handed to the coverage tests
    kupiec,      \* last outcome of kupiec_test
    christoffersen, \* last outcome of christoffersen_test
    book_rows    \* st.session_state["BOOK_ROWS"]: the blotter rows

vars == <<positions, factor_df, exposures, pnl, port, rules, hedges,
          pnl_in, window, alpha, roll, op, saved, var_out, es_out,
          limits_out, risk_var, beta_out, breach, exceed, kupiec,
          christoffersen, book_rows>>

riskVars == <<var_out, es_out, limits_out, risk_var, beta_out>>

testVars == <<exceed, kupiec, christoffersen>>

\* no risk measure has been computed
RiskNotRun ==
    /\ var_out = <<>>
    /\ es_out = <<>>
    /\ limits_out = <<>>
    /\ risk_var = <<>>
    /\ beta_out = <<>>

\* no coverage test has been run
TestsNotRun ==
    /\ exceed = <<>>
    /\ kupiec = <<>>
    /\ christoffersen = <<>>

----------------------------------------------------------------------------
(* Exact arithmetic standing for float arithmetic *)

NaN == <<0, 0>>

IsNaN(x) == x[2] = 0

Abs(n) == IF n < 0 THEN -n ELSE n

RECURSIVE GCD(_, _)
GCD(a, b) == IF b = 0 THEN a ELSE GCD(b, a % b)

Frac(n, d) ==
    IF d = 0 THEN NaN
    ELSE LET g == GCD(Abs(n), Abs(d))
             s == IF d < 0 THEN -1 ELSE 1
         IN  <<(s * n) \div g, (s * d) \div g>>

R(n) == <<n, 1>>

RNeg(a) == IF IsNaN(a) THEN NaN ELSE <<-a[1], a[2]>>

RAdd(a, b) ==
    IF IsNaN(a) \/ IsNaN(b) THEN NaN
    ELSE LET g == GCD(a[2], b[2])
         IN  Frac(a[1] * (b[2] \div g) + b[1] * (a[2] \div g), (a[2] \div g) * b[2])

RSub(a, b) == RAdd(a, RNeg(b))

RMul(a, b) ==
    IF IsNaN(a) \/ IsNaN(b) THEN NaN
    ELSE LET g1 == GCD(Abs(a[1]), b[2])
             g2 == GCD(Abs(b[1]), a[2])
         IN  Frac((a[1] \div g1) * (b[1] \div g2), (a[2] \div g2) * (b[2] \div g1))

RInv(b) == IF b[1] < 0 THEN <<-b[2], -b[1]>> ELSE <<b[2], b[1]>>

RDiv(a, b) == RMul(a, RInv(b))

RLt(a, b) == ~IsNaN(a) /\ ~IsNaN(b) /\ a[1] * b[2] < b[1] * a[2]

RLe(a, b) == ~IsNaN(a) /\ ~IsNaN(b) /\ a[1] * b[2] <= b[1] * a[2]

RAbs(a) == <<Abs(a[1]), a[2]>>

\* sum of s[lo..hi], halving the range to keep the evaluation shallow
RECURSIVE SumRange(_, _, _)
SumRange(s, lo, hi) ==
    IF lo > hi THEN R(0)
    ELSE IF lo = hi THEN s[lo]
    ELSE LET mid == (lo + hi) \div 2
         IN  RAdd(SumRange(s, lo, mid), SumRange(s, mid + 1, hi))

SumSeq(s) == SumRange(s, 1, Len(s))

Mean(s) == RDiv(SumSeq(s), R(Len(s)))

\* dict.get(k, default)
DictGet(d, k, default) == IF k \in DOMAIN d THEN d[k] ELSE default

EmptyDict == [k \in {} |-> NaN]

----------------------------------------------------------------------------
(* Position and TradingBook *)

Position(name, asset_class, ric, notional_usd, multiplier, dv01_usd_per_bp, enabled) ==
    [name |-> name, asset_class |-> asset_class, ric |-> ric,
     notional_usd |-> notional_usd, multiplier |-> multiplier,
     dv01_usd_per_bp |-> dv01_usd_per_bp, enabled |-> enabled]

\* a plausible slip: the RATES branch is forgotten
exposure_usd_notional(p) == RMul(p.notional_usd, p.multiplier)

exposure_usd(p) ==
    IF p.asset_class = "RATES"
    THEN p.dv01_usd_per_bp
    ELSE RMul(p.notional_usd, p.multiplier)

\* a plausible slip: the enabled filter is forgotten
enabled_positions_all(ps) == ps

enabled_positions(ps) == SelectSeq(ps, LAMBDA p : p.enabled)

RECURSIVE ExposureLoop(_, _, _)
ExposureLoop(eps, i, out) ==
    IF i > Len(eps) THEN out
    ELSE LET p == eps[i]
             v == RAdd(DictGet(out, p.ric, R(0)), exposure_usd(p))
         IN  ExposureLoop(eps, i + 1,
                 [k \in DOMAIN out \cup {p.ric} |-> IF k = p.ric THEN v ELSE out[k]])

exposure_by_factor(ps) == ExposureLoop(enabled_positions(ps), 1, EmptyDict)

----------------------------------------------------------------------------
(* Factor table (pandas DataFrame): n rows indexed 1..n, cols maps each     *)
(* column label (a factor id) to its n values.                              *)

Table(n, cols) == [n |-> n, cols |-> cols]

Scale(col, x) == [t \in DOMAIN col |-> RMul(col[t], x)]

\* a plausible slip: columns keyed by the position's factor id
PnlKeyRic(p) == p.ric

\* the dict key of a PnL column (book.py line 59)
PnlKey(p) == p.name

RECURSIVE PnlLoop(_, _, _, _)
PnlLoop(eps, i, df, pnl_cols) ==
    IF i > Len(eps) THEN pnl_cols
    ELSE LET p == eps[i] IN
         IF p.ric \notin DOMAIN df.cols
         THEN PnlLoop(eps, i + 1, df, pnl_cols)
         ELSE LET c == Scale(df.cols[p.ric], exposure_usd(p))
              IN  PnlLoop(eps, i + 1, df,
                      [k \in DOMAIN pnl_cols \cup {PnlKey(p)} |->
                          IF k = PnlKey(p) THEN c ELSE pnl_cols[k]])

pnl_matrix(ps, df) == Table(df.n, PnlLoop(enabled_positions(ps), 1, df, EmptyDict))

\* DataFrame.empty: an axis of length 0
IsEmpty(tab) == tab.n = 0 \/ DOMAIN tab.cols = {}

\* DataFrame.sum(axis=1) with the default skipna=True: missing cells count 0
RECURSIVE SumSkipNa(_, _, _)
SumSkipNa(cols, keys, t) ==
    IF keys = {} THEN R(0)
    ELSE LET k == CHOOSE x \in keys : TRUE
             v == cols[k][t]
         IN  RAdd(IF IsNaN(v) THEN R(0) ELSE v, SumSkipNa(cols, keys \ {k}, t))

\* a plausible slip: the empty matrix is summed like any other
portfolio_pnl_zeros(ps, df) ==
    LET m == pnl_matrix(ps, df) IN
    [t \in 1..df.n |-> SumSkipNa(m.cols, DOMAIN m.cols, t)]

portfolio_pnl(ps, df) ==
    LET m == pnl_matrix(ps, df) IN
    IF IsEmpty(m)
    THEN [t \in 1..df.n |-> NaN]
    ELSE [t \in 1..df.n |-> SumSkipNa(m.cols, DOMAIN m.cols, t)]

\* factors.dropna(axis=1, how="all").dropna(axis=0, how="any")
DropNa(df) ==
    LET keepc == {c \in DOMAIN df.cols : \E t \in 1..df.n : ~IsNaN(df.cols[c][t])}
        keepr == SelectSeq([t \in 1..df.n |-> t],
                           LAMBDA t : \A c \in keepc : ~IsNaN(df.cols[c][t]))
    IN  Table(Len(keepr), [c \in keepc |-> [k \in 1..Len(keepr) |-> df.cols[c][keepr[k]]]])

----------------------------------------------------------------------------
(* Bounds and input domains of the book / PnL specification *)

MaxPos == 2        \* positions in a book

NumDates == 3      \* rows of a factor table

PositionNames == {"P", "Q"}

FactorIds == {"A", "B"}

\* factor A is an equity return series, factor B a rates bps-change series
Instruments == { <<"EQ", "A">>, <<"RATES", "B">> }

\* (notional_usd, multiplier, dv01_usd_per_bp) of a blotter row
Sizes ==
    { [notional_usd |-> R(1000000), multiplier |-> <<1, 2>>, dv01_usd_per_bp |-> R(100000)],
      [notional_usd |-> R(-500000), multiplier |-> R(1),     dv01_usd_per_bp |-> R(-100000)] }

BookPositions ==
    { Position(nm, ins[1], ins[2], sz.notional_usd, sz.multiplier, sz.dv01_usd_per_bp, en) :
        nm \in PositionNames, ins \in Instruments, sz \in Sizes, en \in BOOLEAN }

Books == UNION { [1..k -> BookPositions] : k \in 1..MaxPos }

\* factor moves: log returns for factor A, basis-point changes for factor B
FactorMove(f, t) ==
    IF f = "B" THEN R(5)
    ELSE CASE t = 1 -> <<1, 100>>
           [] t = 2 -> <<-1, 50>>
           [] t = 3 -> <<1, 200>>
           [] OTHER -> <<-1, 100>>

\* a column, complete (gap = 0) or with one missing observation
Column(f, gap) == [t \in 1..NumDates |-> IF t = gap THEN NaN ELSE FactorMove(f, t)]

\* where a column may miss an observation: anywhere in A, the last row in B
Gaps(f) == IF f = "A" THEN 0..NumDates ELSE {0, NumDates}

FactorTables ==
    { Table(NumDates, [f \in fs |-> Column(f, g[f])]) :
        fs \in SUBSET FactorIds, g \in { h \in [FactorIds -> 0..NumDates] :
                                            \A f \in FactorIds : h[f] \in Gaps(f) } }

NotRunTable == Table(0, EmptyDict)

NoSaved == [idx |-> 0, exp |-> EmptyDict]

----------------------------------------------------------------------------
(* The book / PnL specification: a book and a factor table, the blotter's   *)
(* enabled flag edited, exposures recomputed on every edit, PnL on demand.  *)

InitBook ==
    /\ positions \in Books
    /\ factor_df \in FactorTables
    /\ exposures = exposure_by_factor(positions)
    /\ pnl = NotRunTable
    /\ port = <<>>
    /\ rules = <<>>
    /\ hedges = <<>>
    /\ pnl_in = <<>>
    /\ window = 0
    /\ alpha = NaN
    /\ roll = <<>>
    /\ op = "init"
    /\ saved = NoSaved
    /\ RiskNotRun
    /\ TestsNotRun
    /\ breach = <<>>
    /\ book_rows = <<>>

OtherUnchanged == UNCHANGED <<rules, book_rows, hedges, pnl_in, window, alpha, roll,
                              riskVars, testVars, breach>>

\* the enabled flag of position i is cleared; exposures are recomputed
Disable(i) ==
    /\ positions[i].enabled
    /\ saved' = [idx |-> i, exp |-> exposure_by_factor(positions)]
    /\ positions' = [positions EXCEPT ![i].enabled = FALSE]
    /\ exposures' = exposure_by_factor(positions')
    /\ pnl' = NotRunTable
    /\ port' = <<>>
    /\ op' = "disable"
    /\ UNCHANGED factor_df
    /\ OtherUnchanged

\* the enabled flag of position i is set; exposures are recomputed
Enable(i) ==
    /\ ~positions[i].enabled
    /\ positions' = [positions EXCEPT ![i].enabled = TRUE]
    /\ exposures' = exposure_by_factor(positions')
    /\ pnl' = NotRunTable
    /\ port' = <<>>
    /\ IF saved.idx = i
       THEN op' = "reenable" /\ UNCHANGED saved
       ELSE op' = "enable" /\ saved' = NoSaved
    /\ UNCHANGED factor_df
    /\ OtherUnchanged

\* the caller's strict alignment of the factor table (pages/3_VaR.py line 70)
AlignFactors ==
    /\ factor_df' = DropNa(factor_df)
    /\ factor_df' # factor_df
    /\ pnl' = NotRunTable
    /\ port' = <<>>
    /\ op' = "align"
    /\ UNCHANGED <<positions, exposures, saved>>
    /\ OtherUnchanged

\* pnl_matrix and portfolio_pnl on the current book and factor table
RunPnl ==
    /\ op # "run"
    /\ pnl' = pnl_matrix(positions, factor_df)
    /\ port' = portfolio_pnl(positions, factor_df)
    /\ op' = "run"
    /\ UNCHANGED <<positions, factor_df, exposures, saved>>
    /\ OtherUnchanged

NextBook ==
    \/ \E i \in 1..Len(positions) : Disable(i)
    \/ \E i \in 1..Len(positions) : Enable(i)
    \/ AlignFactors
    \/ RunPnl

SpecBook == InitBook /\ [][NextBook]_vars

----------------------------------------------------------------------------
(* The exposure specification: one position of the blotter, one of its      *)
(* size fields multiplied by a factor k, exposure_usd taken before and      *)
(* after.                                                                   *)

ScaleFactors == { R(2), R(-1), R(0), <<1, 2>> }

\* asset_class: "EQ" | "FX" | "INDEX" | "RATES"
AssetClasses == {"EQ", "FX", "INDEX", "RATES"}

ExposureNotionals == { R(0), R(1000000), R(-500000) }

ExposureMultipliers == { R(0), <<1, 2>>, R(-2) }

ExposureDv01s == { R(0), R(100000), R(-100000) }

ExposurePositions ==
    { Position("P", ac, "A", n, m, d, TRUE) :
        ac \in AssetClasses, n \in ExposureNotionals,
        m \in ExposureMultipliers, d \in ExposureDv01s }

NotScaled == [field |-> "", k |-> NaN, before |-> NaN, after |-> NaN]

InitExposure ==
    /\ positions \in { <<p>> : p \in ExposurePositions }
    /\ exposures = exposure_by_factor(positions)
    /\ saved = NotScaled
    /\ op = "init"
    /\ factor_df = NotRunTable
    /\ pnl = NotRunTable
    /\ port = <<>>
    /\ rules = <<>>
    /\ hedges = <<>>
    /\ pnl_in = <<>>
    /\ window = 0
    /\ alpha = NaN
    /\ roll = <<>>
    /\ RiskNotRun
    /\ TestsNotRun
    /\ breach = <<>>
    /\ book_rows = <<>>

ExposureFrame == UNCHANGED <<factor_df, pnl, port, rules, book_rows, hedges, pnl_in, window,
                             alpha, roll, riskVars, testVars, breach>>

\* the exposure of the position before and after one field was replaced
ScaledBy(field, k, p, q) ==
    [field |-> field, k |-> k, before |-> exposure_usd(p), after |-> exposure_usd(q)]

ScaleNotional(k) ==
    /\ op = "init"
    /\ positions' = <<[positions[1] EXCEPT !.notional_usd = RMul(@, k)]>>
    /\ saved' = ScaledBy("notional_usd", k, positions[1], positions'[1])
    /\ exposures' = exposure_by_factor(positions')
    /\ op' = "scale"
    /\ ExposureFrame

ScaleMultiplier(k) ==
    /\ op = "init"
    /\ positions' = <<[positions[1] EXCEPT !.multiplier = RMul(@, k)]>>
    /\ saved' = ScaledBy("multiplier", k, positions[1], positions'[1])
    /\ exposures' = exposure_by_factor(positions')
    /\ op' = "scale"
    /\ ExposureFrame

ScaleDv01(k) ==
    /\ op = "init"
    /\ positions' = <<[positions[1] EXCEPT !.dv01_usd_per_bp = RMul(@, k)]>>
    /\ saved' = ScaledBy("dv01_usd_per_bp", k, positions[1], positions'[1])
    /\ exposures' = exposure_by_factor(positions')
    /\ op' = "scale"
    /\ ExposureFrame

NextExposure ==
    \/ \E k \in ScaleFactors : ScaleNotional(k)
    \/ \E k \in ScaleFactors : ScaleMultiplier(k)
    \/ \E k \in ScaleFactors : ScaleDv01(k)

SpecExposure == InitExposure /\ [][NextExposure]_vars

----------------------------------------------------------------------------
(* Hedge engine (src/hedging/engine.py) *)

\* Optional[...] = None
None == <<>>

\* factors_df = None
NoneTable == Table(-1, EmptyDict)

IsNone(df) == df.n < 0

HedgeRule(target, hedge_ric, name, asset_class, mult, max_abs, enabled, proxy) ==
    [target_factor_ric |-> target, hedge_factor_ric |-> hedge_ric, hedge_name |-> name,
     hedge_asset_class |-> asset_class, hedge_multiplier |-> mult,
     max_abs_notional |-> max_abs, enabled |-> enabled, proxy_beta |-> proxy]

\* str.strip() on the identifiers the model uses
Strip(s) ==
    CASE s = " A " -> "A"
      [] s = " "   -> ""
      [] OTHER     -> s

\* str.upper().strip() on the asset classes the model uses
UpperStrip(s) ==
    CASE s = "index"  -> "INDEX"
      [] s = "rates " -> "RATES"
      [] s = "eq"     -> "EQ"
      [] s = "fx"     -> "FX"
      [] OTHER        -> Strip(s)

ValidClasses == {"EQ", "FX", "INDEX", "RATES"}

\* a plausible slip: a truncated notional loses its sign
ClampUnsigned(x, max_abs) ==
    IF max_abs = None THEN x
    ELSE IF RLe(max_abs, R(0)) THEN x
    ELSE IF RLt(max_abs, RAbs(x)) THEN max_abs
    ELSE x

\* a plausible slip: the cap is never applied
ClampNever(x, max_abs) == x

\* _clamp: None or a cap <= 0 leaves x; otherwise np.clip(x, -m, m)
Clamp(x, max_abs) ==
    IF max_abs = None THEN x
    ELSE IF RLe(max_abs, R(0)) THEN x
    ELSE IF RLt(x, RNeg(max_abs)) THEN RNeg(max_abs)
    ELSE IF RLt(max_abs, x) THEN max_abs
    ELSE x

\* fewer aligned observations than this give beta 0.0
MinBetaObs == 30

\* a plausible slip: np.cov left at its default ddof=1 (sample covariance)
BetaSampleCov(y, x) ==
    LET rows == SelectSeq([t \in 1..Len(y) |-> t],
                          LAMBDA t : ~IsNaN(y[t]) /\ ~IsNaN(x[t]))
        yy == [k \in 1..Len(rows) |-> y[rows[k]]]
        xx == [k \in 1..Len(rows) |-> x[rows[k]]]
    IN  IF Len(rows) < MinBetaObs THEN R(0)
        ELSE LET mx == Mean(xx)
                 my == Mean(yy)
                 vx == Mean([k \in 1..Len(rows) |->
                                RMul(RSub(xx[k], mx), RSub(xx[k], mx))])
                 cov == RDiv(SumSeq([k \in 1..Len(rows) |->
                                RMul(RSub(yy[k], my), RSub(xx[k], mx))]),
                             R(Len(rows) - 1))
             IN  IF RLe(vx, R(0)) THEN R(0) ELSE RDiv(cov, vx)

\* _beta(y, x): population covariance over population variance
Beta(y, x) ==
    LET rows == SelectSeq([t \in 1..Len(y) |-> t],
                          LAMBDA t : ~IsNaN(y[t]) /\ ~IsNaN(x[t]))
        yy == [k \in 1..Len(rows) |-> y[rows[k]]]
        xx == [k \in 1..Len(rows) |-> x[rows[k]]]
    IN  IF Len(rows) < MinBetaObs THEN R(0)
        ELSE LET mx == Mean(xx)
                 my == Mean(yy)
                 vx == Mean([k \in 1..Len(rows) |->
                                RMul(RSub(xx[k], mx), RSub(xx[k], mx))])
                 cov == Mean([k \in 1..Len(rows) |->
                                RMul(RSub(yy[k], my), RSub(xx[k], mx))])
             IN  IF RLe(vx, R(0)) THEN R(0) ELSE RDiv(cov, vx)

\* a plausible slip: every asset class enters the proxy sum
ProxyClassesAll == ValidClasses

\* the asset classes that enter the SPX-equivalent exposure
ProxyClasses == {"EQ", "INDEX"}

RECURSIVE SpxEquivLoop(_, _, _, _)
SpxEquivLoop(eps, i, df, acc) ==
    IF i > Len(eps) THEN acc
    ELSE LET p == eps[i] IN
         IF p.asset_class \notin ProxyClasses \/ p.ric \notin DOMAIN df.cols
         THEN SpxEquivLoop(eps, i + 1, df, acc)
         ELSE LET b == IF p.ric = ".SPX" THEN R(1)
                       ELSE Beta(df.cols[p.ric], df.cols[".SPX"])
              IN  SpxEquivLoop(eps, i + 1, df, RAdd(acc, RMul(exposure_usd(p), b)))

\* the beta-proxy branch is taken (engine.py line 88)
UsesProxy(r, df) ==
    /\ r.proxy_beta
    /\ Strip(r.target_factor_ric) = ".SPX"
    /\ ~IsNone(df)
    /\ ".SPX" \in DOMAIN df.cols

\* the current exposure a rule neutralizes
CurrentExposure(ps, r, df) ==
    IF UsesProxy(r, df)
    THEN SpxEquivLoop(enabled_positions(ps), 1, df, R(0))
    ELSE DictGet(exposure_by_factor(ps), Strip(r.target_factor_ric), R(0))

\* abs(x) < 1e-12, computed without leaving 32 bits
Negligible(x) == Abs(x[1]) <= ((x[2] - 1) \div 1000000) \div 1000000

\* a plausible slip: only the enabled flag is looked at
SkipsDisabledOnly(r) == ~r.enabled

\* the rule is skipped before any exposure is read
SkipsRule(r) ==
    \/ ~r.enabled
    \/ Strip(r.target_factor_ric) = ""
    \/ Strip(r.hedge_factor_ric) = ""
    \/ UpperStrip(r.hedge_asset_class) \notin ValidClasses

\* a plausible slip: the fallback 1.0 is used for every rule
EffectiveMultiplierOne(r) == R(1)

\* float(r.hedge_multiplier) if nonzero else 1.0
EffectiveMultiplier(r) ==
    IF r.hedge_multiplier = R(0) THEN R(1) ELSE r.hedge_multiplier

\* a plausible slip: the sign of the hedge is not reversed
RawNotionalSameSign(cur, mult) == RDiv(cur, mult)

\* notional = -current_exp / mult
RawNotional(cur, mult) == RDiv(RNeg(cur), mult)

\* a plausible slip: the rates hedge is scaled and capped like a notional
HedgePositionRatesCapped(r, cur) ==
    LET mult == EffectiveMultiplier(r)
        notional == Clamp(RawNotional(cur, mult), r.max_abs_notional)
    IN  IF UpperStrip(r.hedge_asset_class) = "RATES"
        THEN Position(r.hedge_name, "RATES", Strip(r.hedge_factor_ric),
                      R(0), R(1), notional, TRUE)
        ELSE Position(r.hedge_name, UpperStrip(r.hedge_asset_class),
                      Strip(r.hedge_factor_ric), notional, mult, R(0), TRUE)

\* the Position a rule emits for a non-negligible current exposure
HedgePosition(r, cur) ==
    IF UpperStrip(r.hedge_asset_class) = "RATES"
    THEN Position(r.hedge_name, "RATES", Strip(r.hedge_factor_ric),
                  R(0), R(1), RNeg(cur), TRUE)
    ELSE LET mult == EffectiveMultiplier(r)
             notional == Clamp(RawNotional(cur, mult), r.max_abs_notional)
         IN  Position(r.hedge_name, UpperStrip(r.hedge_asset_class),
                      Strip(r.hedge_factor_ric), notional, mult, R(0), TRUE)

\* a plausible slip: a rule sees the hedges emitted before it
RECURSIVE BuildLoopHedged(_, _, _, _, _)
BuildLoopHedged(ps, rs, df, i, out) ==
    IF i > Len(rs) THEN out
    ELSE LET r == rs[i] IN
         IF SkipsRule(r) THEN BuildLoopHedged(ps, rs, df, i + 1, out)
         ELSE LET cur == CurrentExposure(ps \o out, r, df) IN
              IF Negligible(cur) THEN BuildLoopHedged(ps, rs, df, i + 1, out)
              ELSE BuildLoopHedged(ps, rs, df, i + 1, Append(out, HedgePosition(r, cur)))

RECURSIVE BuildLoop(_, _, _, _, _)
BuildLoop(ps, rs, df, i, out) ==
    IF i > Len(rs) THEN out
    ELSE LET r == rs[i] IN
         IF SkipsRule(r) THEN BuildLoop(ps, rs, df, i + 1, out)
         ELSE LET cur == CurrentExposure(ps, r, df) IN
              IF Negligible(cur) THEN BuildLoop(ps, rs, df, i + 1, out)
              ELSE BuildLoop(ps, rs, df, i + 1, Append(out, HedgePosition(r, cur)))

build_hedges(ps, rs, df) == BuildLoop(ps, rs, df, 1, <<>>)

----------------------------------------------------------------------------
(* Blotter rows to positions: rows_to_positions of pages/3_VaR.py and of    *)
(* app.py, and the book construction of pages/4_backtesting.py.  A row has  *)
(* the fields of a Position; a blank numeric cell is None.                  *)

\* float(x or d): a blank or zero cell is replaced by d
FloatOr(x, d) == IF x = None \/ x = R(0) THEN d ELSE x

\* the Position(...) built of a row; app.py also strips the name
RowPosition(r, strip_name) ==
    Position(IF strip_name THEN Strip(r.name) ELSE r.name,
             UpperStrip(r.asset_class),
             Strip(r.ric),
             FloatOr(r.notional_usd, R(0)),
             FloatOr(r.multiplier, R(1)),
             FloatOr(r.dv01_usd_per_bp, R(0)),
             r.enabled)

RowPositions(rows, strip_name) ==
    [i \in 1..Len(rows) |-> RowPosition(rows[i], strip_name)]

\* p.name and p.asset_class in {"EQ", "FX", "INDEX", "RATES"} and p.ric
KeepsRow(p) == p.name # "" /\ p.asset_class \in ValidClasses /\ p.ric # ""

\* the same filter with p.enabled
KeepsEnabledRow(p) == p.enabled /\ KeepsRow(p)

\* pages/3_VaR.py
rows_to_positions(rows) == SelectSeq(RowPositions(rows, FALSE), KeepsRow)

\* app.py
app_rows_to_positions(rows) == SelectSeq(RowPositions(rows, TRUE), KeepsEnabledRow)

\* pages/4_backtesting.py
backtest_positions(rows) == SelectSeq(RowPositions(rows, FALSE), KeepsEnabledRow)

----------------------------------------------------------------------------
(* The blotter specification: the default blotter, a row edited on the VaR  *)
(* page or on the main page (the page reruns and converts the rows), and    *)
(* the backtesting page opened on the saved rows.                           *)

\* (name, ric) cells of a row: entered, blank, or a space
RowLabels == { <<"P", "A">>, <<"", "A">>, <<" ", "A">>, <<"P", " ">> }

\* (asset_class, notional_usd, multiplier, dv01_usd_per_bp) cells of a row
RowSizes ==
    { <<"eq", R(1000000), <<1, 2>>, R(0)>>,
      <<"eq", R(1000000), R(0), R(0)>>,
      <<"eq", R(1000000), None, None>>,
      <<"RATES", None, R(0), R(100000)>>,
      <<"BOND", R(1000000), <<1, 2>>, R(0)>> }

BlotterRows ==
    { Position(lb[1], z[1], lb[2], z[2], z[3], z[4], en) :
        lb \in RowLabels, z \in RowSizes, en \in BOOLEAN }

\* two rows of default_book_rows()
default_book_rows ==
    << Position("AAPL Delta", "EQ", "AAPL.O", R(1000000), <<11, 20>>, R(0), TRUE),
       Position("Rates 10Y", "RATES", ".TNX", R(0), R(1), R(120000), TRUE) >>

InitBlotter ==
    /\ book_rows = default_book_rows
    /\ positions = <<>>
    /\ exposures = EmptyDict
    /\ op = "init"
    /\ saved = NoSaved
    /\ factor_df = NotRunTable
    /\ pnl = NotRunTable
    /\ port = <<>>
    /\ rules = <<>>
    /\ hedges = <<>>
    /\ pnl_in = <<>>
    /\ window = 0
    /\ alpha = NaN
    /\ roll = <<>>
    /\ RiskNotRun
    /\ TestsNotRun
    /\ breach = <<>>

BlotterFrame == UNCHANGED <<factor_df, pnl, port, rules, hedges, pnl_in, window,
                            alpha, roll, saved, riskVars, testVars, breach>>

\* pages/3_VaR.py: row i is edited, the rows are saved and converted
EditOnVarPage(i, r) ==
    /\ book_rows' = [book_rows EXCEPT ![i] = r]
    /\ positions' = rows_to_positions(book_rows')
    /\ exposures' = exposure_by_factor(positions')
    /\ op' = "var"
    /\ BlotterFrame

\* app.py: row i is edited, the rows are saved and converted
EditOnMainPage(i, r) ==
    /\ book_rows' = [book_rows EXCEPT ![i] = r]
    /\ positions' = app_rows_to_positions(book_rows')
    /\ exposures' = exposure_by_factor(positions')
    /\ op' = "app"
    /\ BlotterFrame

\* pages/4_backtesting.py: the saved rows are converted
OpenBacktest ==
    /\ positions' = backtest_positions(book_rows)
    /\ exposures' = exposure_by_factor(positions')
    /\ op' = "backtest"
    /\ UNCHANGED book_rows
    /\ BlotterFrame

NextBlotter ==
    \/ \E i \in 1..Len(book_rows), r \in BlotterRows : EditOnVarPage(i, r)
    \/ \E i \in 1..Len(book_rows), r \in BlotterRows : EditOnMainPage(i, r)
    \/ OpenBacktest

SpecBlotter == InitBlotter /\ [][NextBlotter]_vars

----------------------------------------------------------------------------
(* The hedge specification: a book, one hedge rule and an optional factor   *)
(* table; build_hedges is run and the hedges are appended to the book.      *)

HedgeRics == {".SPX", "A"}

HedgeSizes ==
    { [notional_usd |-> R(3000000),  multiplier |-> <<1, 2>>, dv01_usd_per_bp |-> R(100000)],
      [notional_usd |-> R(-1500000), multiplier |-> R(1),     dv01_usd_per_bp |-> R(-100000)] }

\* enabled positions of every class, factor and size, and two disabled ones
HedgeBookPositions ==
    { Position("P", ac, f, sz.notional_usd, sz.multiplier, sz.dv01_usd_per_bp, TRUE) :
        ac \in {"EQ", "RATES"}, f \in HedgeRics, sz \in HedgeSizes }
    \cup
    { Position("P", "EQ", f, R(3000000), <<1, 2>>, R(100000), FALSE) : f \in HedgeRics }

HedgeBooks == UNION { [1..k -> HedgeBookPositions] : k \in 1..MaxPos }

Multipliers == { R(0), <<1, 2>>, R(-2) }

Caps == { None, R(0), R(1000000) }

\* rules of the plain net-exposure path
PlainRules ==
    { HedgeRule(tg, hr, "HEDGE", ac, m, cap, en, px) :
        tg \in HedgeRics, hr \in HedgeRics, ac \in {"INDEX", "RATES"},
        m \in Multipliers, cap \in Caps, en \in BOOLEAN, px \in BOOLEAN }

\* uncapped index and rates rules, with and without the beta proxy
ProxyRules ==
    { HedgeRule(tg, ".SPX", "HEDGE", ac, R(1), None, TRUE, px) :
        tg \in HedgeRics, ac \in {"INDEX", "RATES"}, px \in BOOLEAN }

\* returns in percent, repeating every three days
ReturnPattern(f) == IF f = ".SPX" THEN <<R(1), R(-1), R(0)>> ELSE <<R(1), R(0), R(-1)>>

\* a return column of MinBetaObs days; factor A may miss its first day
BetaColumn(f, gap) ==
    [t \in 1..MinBetaObs |->
        IF f = "A" /\ t = gap THEN NaN ELSE ReturnPattern(f)[((t - 1) % 3) + 1]]

BetaTables ==
    { Table(MinBetaObs, [f \in fs |-> BetaColumn(f, g)]) :
        fs \in SUBSET HedgeRics, g \in {0, 1} }

InitHedge ==
    /\ positions \in HedgeBooks
    /\ \/ factor_df = NoneTable /\ rules \in { <<r>> : r \in PlainRules }
       \/ factor_df \in BetaTables /\ rules \in { <<r>> : r \in ProxyRules }
    /\ exposures = exposure_by_factor(positions)
    /\ hedges = <<>>
    /\ op = "init"
    /\ saved = NoSaved
    /\ pnl = NotRunTable
    /\ port = <<>>
    /\ pnl_in = <<>>
    /\ window = 0
    /\ alpha = NaN
    /\ roll = <<>>
    /\ RiskNotRun
    /\ TestsNotRun
    /\ breach = <<>>
    /\ book_rows = <<>>

HedgeFrame == UNCHANGED <<factor_df, exposures, pnl, port, rules, book_rows, pnl_in, window,
                          alpha, roll, saved, riskVars, testVars, breach>>

\* hedge_positions = build_hedges(book, rules, factors_df=factors)
BuildHedges ==
    /\ op = "init"
    /\ hedges' = build_hedges(positions, rules, factor_df)
    /\ op' = "build"
    /\ UNCHANGED positions
    /\ HedgeFrame

\* hedged_book = TradingBook(book.enabled_positions() + hedge_positions)
ExtendBook ==
    /\ op = "build"
    /\ hedges # <<>>
    /\ positions' = enabled_positions(positions) \o hedges
    /\ op' = "hedged"
    /\ UNCHANGED hedges
    /\ HedgeFrame

NextHedge ==
    \/ BuildHedges
    \/ ExtendBook

SpecHedge == InitHedge /\ [][NextHedge]_vars

----------------------------------------------------------------------------
(* Rolling historical VaR / ES (pages/4_backtesting.py) *)

\* the series must hold at least window + MinExtraObs observations
MinExtraObs == 5

RECURSIVE Insert(_, _)
Insert(s, x) ==
    IF s = <<>> THEN <<x>>
    ELSE IF RLe(x, Head(s)) THEN <<x>> \o s
    ELSE <<Head(s)>> \o Insert(Tail(s), x)

RECURSIVE Sort(_)
Sort(s) == IF s = <<>> THEN <<>> ELSE Insert(Sort(Tail(s)), Head(s))

\* np.quantile(sample, q), linear interpolation between order statistics
Quantile(sample, q) ==
    LET n == Len(sample)
        s == Sort(sample)
        h == RMul(R(n - 1), q)
        j == h[1] \div h[2]
        g == RSub(h, R(j))
    IN  IF j + 1 >= n THEN s[n]
        ELSE RAdd(s[j + 1], RMul(g, RSub(s[j + 2], s[j + 1])))

\* a plausible slip: the window ends at the current observation
SampleAtLookahead(vals, k, w) == SubSeq(vals, k - w + 1, k)

\* vals[i-window:i] for the k-th kept observation (k = i + 1)
SampleAt(vals, k, w) == SubSeq(vals, k - w, k - 1)

\* a plausible slip: the loop starts one observation late
FirstRolledLate(w) == w + 2

\* range(window, len(x)) starts at the (window+1)-th kept observation
FirstRolled(w) == w + 1

UndefinedRow == [VaR |-> NaN, ES |-> NaN]

RollRow(vals, k, w, a) ==
    LET sample == SampleAt(vals, k, w)
        q == Quantile(sample, RSub(R(1), a))
        tail == SelectSeq(sample, LAMBDA v : RLe(v, q))
    IN  [VaR |-> RNeg(q),
         ES |-> IF Len(tail) > 0 THEN RNeg(Mean(tail)) ELSE NaN]

\* positions of the observations pnl.dropna() keeps
Kept(series) == SelectSeq([t \in 1..Len(series) |-> t], LAMBDA t : ~IsNaN(series[t]))

\* rank of index t among the kept observations, 0 when t is dropped
RankOf(kept, t) == IF \E k \in 1..Len(kept) : kept[k] = t
                   THEN CHOOSE k \in 1..Len(kept) : kept[k] = t
                   ELSE 0

rolling_var_es(series, w, a) ==
    LET kept == Kept(series)
        vals == [k \in 1..Len(kept) |-> series[kept[k]]]
    IN  IF Len(kept) < w + MinExtraObs
        THEN [t \in 1..Len(series) |-> UndefinedRow]
        ELSE [t \in 1..Len(series) |->
                LET k == RankOf(kept, t)
                IN  IF k >= FirstRolled(w) THEN RollRow(vals, k, w, a) ELSE UndefinedRow]

\* a plausible slip: a PnL equal to -VaR counts as a breach
BreachesAtOrBelow(p, v) == RLe(p, RNeg(v))

\* df["PnL"] < (-df["VaR"]) on one row
Breaches(p, v) == RLt(p, RNeg(v))

\* the index of pd.concat([pnl.rename("PnL"), roll], axis=1).dropna()
BacktestRows(series, table) ==
    SelectSeq([t \in 1..Len(series) |-> t],
              LAMBDA t : /\ ~IsNaN(series[t])
                         /\ ~IsNaN(table[t].VaR)
                         /\ ~IsNaN(table[t].ES))

\* the Breach column of df, with the dates it is defined on
breach_sequence(series, table) ==
    LET rows == BacktestRows(series, table)
    IN  [rows |-> rows,
         Breach |-> [k \in 1..Len(rows) |->
                        Breaches(series[rows[k]], table[rows[k]].VaR)]]

----------------------------------------------------------------------------
(* The rolling specification: a PnL series, the backtest run on it (rolling *)
(* VaR / ES and the Breach column), one observation replaced and the        *)
(* backtest run again.                                                      *)

MaxLen == 7        \* longest PnL series

MaxWindow == 2     \* largest rolling window

PnlValues == { R(-2), R(1), NaN }

Alphas == { <<19, 20>>, <<99, 100>> }

PnlSeries == UNION { [1..n -> PnlValues] : n \in (MaxLen - 2)..MaxLen }

InitRoll ==
    /\ pnl_in \in PnlSeries
    /\ window \in 1..MaxWindow
    /\ alpha \in Alphas
    /\ roll = <<>>
    /\ op = "init"
    /\ saved = [idx |-> 0, prev |-> <<>>]
    /\ positions = <<>>
    /\ factor_df = NotRunTable
    /\ exposures = EmptyDict
    /\ pnl = NotRunTable
    /\ port = <<>>
    /\ rules = <<>>
    /\ hedges = <<>>
    /\ RiskNotRun
    /\ TestsNotRun
    /\ breach = <<>>
    /\ book_rows = <<>>

RollFrame == UNCHANGED <<positions, factor_df, exposures, pnl, port, rules, book_rows, hedges,
                         window, alpha, riskVars, testVars>>

RunRolling ==
    /\ op = "init"
    /\ roll' = rolling_var_es(pnl_in, window, alpha)
    /\ breach' = breach_sequence(pnl_in, roll')
    /\ op' = "roll"
    /\ UNCHANGED <<pnl_in, saved>>
    /\ RollFrame

\* observation t is replaced by another non-missing value and the backtest rerun
ReplaceObservation(t, v) ==
    /\ op # "init"
    /\ ~IsNaN(pnl_in[t])
    /\ ~IsNaN(v)
    /\ v # pnl_in[t]
    /\ saved' = [idx |-> t, prev |-> roll]
    /\ pnl_in' = [pnl_in EXCEPT ![t] = v]
    /\ roll' = rolling_var_es(pnl_in', window, alpha)
    /\ breach' = breach_sequence(pnl_in', roll')
    /\ op' = "replace"
    /\ RollFrame

NextRoll ==
    \/ RunRolling
    \/ \E t \in 1..Len(pnl_in) : \E v \in PnlValues : ReplaceObservation(t, v)

SpecRoll == InitRoll /\ [][NextRoll]_vars

----------------------------------------------------------------------------
(* Historical VaR / ES: src/portfolio/book.py, pages/3_VaR.py,              *)
(* pages/6_Risk_Limits.py and src/risk/var.py                               *)

\* TradingBook.historical_var: fewer observations give float("nan")
MinVarObs == 30

\* historical_es of the VaR page: fewer observations give float("nan")
MinEsObs == 30

\* historical_es of the Risk Limits page: fewer observations give float("nan")
MinLimitsEsObs == 30

\* pnl.dropna().values
DropMissing(series) == SelectSeq(series, LAMBDA v : ~IsNaN(v))

\* a plausible slip: a sample of exactly MinVarObs observations is refused
historical_var_short(series, a) ==
    LET x == DropMissing(series)
    IN  IF Len(x) <= MinVarObs THEN NaN
        ELSE RNeg(Quantile(x, RSub(R(1), a)))

\* a plausible slip: the quantile is returned with its own sign
historical_var_unsigned(series, a) ==
    LET x == DropMissing(series)
    IN  IF Len(x) < MinVarObs THEN NaN
        ELSE Quantile(x, RSub(R(1), a))

\* TradingBook.historical_var(pnl, alpha)
historical_var(series, a) ==
    LET x == DropMissing(series)
    IN  IF Len(x) < MinVarObs THEN NaN
        ELSE RNeg(Quantile(x, RSub(R(1), a)))

\* a plausible slip: the tail is taken above the quantile
historical_es_upper(series, a) ==
    LET x == DropMissing(series)
    IN  IF Len(x) < MinEsObs THEN NaN
        ELSE LET q == Quantile(x, RSub(R(1), a))
                 tail == SelectSeq(x, LAMBDA v : RLe(q, v))
             IN  IF Len(tail) = 0 THEN NaN ELSE RNeg(Mean(tail))

\* historical_es(pnl, alpha) of pages/3_VaR.py
historical_es(series, a) ==
    LET x == DropMissing(series)
    IN  IF Len(x) < MinEsObs THEN NaN
        ELSE LET q == Quantile(x, RSub(R(1), a))
                 tail == SelectSeq(x, LAMBDA v : RLe(v, q))
             IN  IF Len(tail) = 0 THEN NaN ELSE RNeg(Mean(tail))

\* a plausible slip: the tail is taken strictly below the quantile
limits_historical_es_strict(series, a) ==
    LET x == DropMissing(series)
    IN  IF Len(x) < MinLimitsEsObs THEN NaN
        ELSE LET q == Quantile(x, RSub(R(1), a))
                 tail == SelectSeq(x, LAMBDA v : RLt(v, q))
             IN  IF Len(tail) > 0 THEN RNeg(Mean(tail)) ELSE NaN

\* historical_es(pnl, alpha) of pages/6_Risk_Limits.py
limits_historical_es(series, a) ==
    LET x == DropMissing(series)
    IN  IF Len(x) < MinLimitsEsObs THEN NaN
        ELSE LET q == Quantile(x, RSub(R(1), a))
                 tail == SelectSeq(x, LAMBDA v : RLe(v, q))
             IN  IF Len(tail) > 0 THEN RNeg(Mean(tail)) ELSE NaN

\* the outcome of a call: the exception it raised ("" for none) and its value
Returned(v) == [raised |-> "", value |-> v]

Raised(e) == [raised |-> e, value |-> NaN]

\* historical_var(pnl_series, confidence) of src/risk/var.py
risk_historical_var(pnl_series, confidence) ==
    IF pnl_series = <<>> THEN Raised("ValueError")
    ELSE LET losses == Sort([k \in 1..Len(pnl_series) |-> RNeg(pnl_series[k])])
             n == Len(losses)
             h == RMul(R(n - 1), confidence)
             idx == h[1] \div h[2]
         IN  Returned(losses[idx + 1])

----------------------------------------------------------------------------
(* The risk specification: a PnL sample and a pair of return series; the    *)
(* VaR page computes VaR and ES, the Risk Limits page computes them again,  *)
(* the confidence level is changed, src/risk/var.py is called on the plain  *)
(* list, and _beta is taken of the pair.                                    *)

MaxObs == 31       \* longest sample

PnlLevels == <<R(-10000), R(2500), R(5000)>>

ReturnLevels == <<R(-2), R(1), R(3)>>

\* a series over n dates: about a low values, b middle values, the rest
\* high, spread over the dates; missing on the dates of gaps
Sample(n, a, b, gaps, levels) ==
    [t \in 1..n |->
        IF t \in gaps THEN NaN
        ELSE LET r == (t * 11) % n
             IN  IF r < a THEN levels[1]
                 ELSE IF r < a + b THEN levels[2]
                 ELSE levels[3]]

GapSets == { {}, {5}, {5, 17} }

SampleShapes ==
    { [n |-> n, a |-> a, b |-> b, gaps |-> g] :
        n \in (MaxObs - 3)..MaxObs, a \in 0..3, b \in {0, 1, 2, MaxObs}, g \in GapSets }

\* PnL of 1,000,000 x 0.5 on factor returns [0.01, -0.02, 0.005]
ScenarioPnl == <<R(5000), R(-10000), R(2500)>>

\* the same returns, in percent
ScenarioReturns == <<R(1), R(-2), <<1, 2>>>>

VarAlphas == Alphas \cup { <<1, 2>> }

XKinds == {"same", "const", "other"}

\* the independent series paired with y
XSeries(kind, y) ==
    IF kind = "same" THEN y
    ELSE IF kind = "const" THEN [t \in 1..Len(y) |-> R(1)]
    ELSE Sample(Len(y), 2, 4, {9}, ReturnLevels)

\* the two return series as columns of one frame
Pair(y, x) == Table(Len(y), [c \in {"Y", "X"} |-> IF c = "Y" THEN y ELSE x])

InitRisk ==
    /\ \/ \E sh \in SampleShapes, kind \in XKinds :
            /\ pnl_in = Sample(sh.n, sh.a, sh.b, sh.gaps, PnlLevels)
            /\ factor_df = Pair(Sample(sh.n, sh.a, sh.b, sh.gaps, ReturnLevels),
                                XSeries(kind, Sample(sh.n, sh.a, sh.b, sh.gaps,
                                                     ReturnLevels)))
       \/ /\ pnl_in = ScenarioPnl
          /\ factor_df = Pair(ScenarioReturns, ScenarioReturns)
       \/ /\ pnl_in = <<>>
          /\ factor_df = Pair(<<>>, <<>>)
    /\ alpha \in VarAlphas
    /\ RiskNotRun
    /\ op = "init"
    /\ saved = [alpha |-> NaN, var |-> NaN, es |-> NaN]
    /\ positions = <<>>
    /\ exposures = EmptyDict
    /\ pnl = NotRunTable
    /\ port = <<>>
    /\ rules = <<>>
    /\ hedges = <<>>
    /\ window = 0
    /\ roll = <<>>
    /\ breach = <<>>
    /\ book_rows = <<>>
    /\ TestsNotRun

RiskFrame == UNCHANGED <<positions, factor_df, exposures, pnl, port, rules, book_rows, hedges,
                         pnl_in, window, roll, breach, testVars>>

\* var_unhedged = TradingBook.historical_var(port_pnl, alpha=alpha)
\* es_unhedged = historical_es(port_pnl, alpha=alpha)
RunVar ==
    /\ op = "init"
    /\ var_out' = historical_var(pnl_in, alpha)
    /\ es_out' = historical_es(pnl_in, alpha)
    /\ op' = "var"
    /\ UNCHANGED <<alpha, saved, limits_out, risk_var, beta_out>>
    /\ RiskFrame

\* var = TradingBook.historical_var(pnl, alpha); es = historical_es(pnl, alpha)
RunLimits ==
    /\ op = "var"
    /\ limits_out' = [var |-> historical_var(pnl_in, alpha),
                      es |-> limits_historical_es(pnl_in, alpha)]
    /\ op' = "limits"
    /\ UNCHANGED <<alpha, saved, var_out, es_out, risk_var, beta_out>>
    /\ RiskFrame

\* another confidence level is selected and both pages recompute
ChangeAlpha(a) ==
    /\ op = "limits"
    /\ a # alpha
    /\ saved' = [alpha |-> alpha, var |-> var_out, es |-> es_out]
    /\ alpha' = a
    /\ var_out' = historical_var(pnl_in, a)
    /\ es_out' = historical_es(pnl_in, a)
    /\ limits_out' = [var |-> historical_var(pnl_in, a),
                      es |-> limits_historical_es(pnl_in, a)]
    /\ op' = "alpha"
    /\ UNCHANGED <<risk_var, beta_out>>
    /\ RiskFrame

\* var_99 = historical_var(pnls, confidence=0.99) on a plain list of floats
RunRiskVar ==
    /\ op = "init"
    /\ \A t \in 1..Len(pnl_in) : ~IsNaN(pnl_in[t])
    /\ risk_var' = risk_historical_var(pnl_in, alpha)
    /\ op' = "riskvar"
    /\ UNCHANGED <<alpha, saved, var_out, es_out, limits_out, beta_out>>
    /\ RiskFrame

\* b = _beta(factors_df[p.ric], spx)
RunBeta ==
    /\ op = "init"
    /\ beta_out' = Beta(factor_df.cols["Y"], factor_df.cols["X"])
    /\ op' = "beta"
    /\ UNCHANGED <<alpha, saved, var_out, es_out, limits_out, risk_var>>
    /\ RiskFrame

NextRisk ==
    \/ RunVar
    \/ RunLimits
    \/ \E a \in VarAlphas : ChangeAlpha(a)
    \/ RunRiskVar
    \/ RunBeta

SpecRisk == InitRisk /\ [][NextRisk]_vars

----------------------------------------------------------------------------
(* The core specification: a book, a factor table and a list of hedge rules *)
(* as the VaR page holds them; the page calls exposure_by_factor,           *)
(* pnl_matrix, portfolio_pnl, historical_var and build_hedges in that       *)
(* order, and on a rerun calls them again on the same objects.              *)

MaxRules == 2

\* a long and a short position on factor A that cancel, a short one on
\* .SPX and a disabled one
CorePositions ==
    { Position("P", "EQ", "A", R(3000000), <<1, 2>>, R(0), TRUE),
      Position("Q", "EQ", "A", R(-1500000), R(1), R(0), TRUE),
      Position("S", "EQ", ".SPX", R(-1500000), R(1), R(0), TRUE),
      Position("D", "EQ", "A", R(3000000), <<1, 2>>, R(0), FALSE) }

CoreBooks == [1..2 -> CorePositions]

\* a table with both series, one whose factor A misses a day, one without .SPX
CoreTables ==
    { Table(MinBetaObs, [f \in HedgeRics |-> BetaColumn(f, 0)]),
      Table(MinBetaObs, [f \in HedgeRics |-> BetaColumn(f, 1)]),
      Table(MinBetaObs, [f \in {"A"} |-> BetaColumn(f, 0)]) }

\* a plain rule, a rates rule, a disabled rule, a rule of an unknown asset
\* class, a rule with a blank hedge factor, a capped beta-proxy rule on .SPX
\* and a rule whose target no position maps to
CoreRules ==
    { HedgeRule("A", ".SPX", "H1", "INDEX", <<1, 2>>, None, TRUE, FALSE),
      HedgeRule(" A ", "A", "H2", "rates ", R(1), None, TRUE, FALSE),
      HedgeRule("A", ".SPX", "H3", "INDEX", R(1), None, FALSE, FALSE),
      HedgeRule("A", ".SPX", "H4", "BOND", R(1), None, TRUE, FALSE),
      HedgeRule("A", " ", "H5", "INDEX", R(1), None, TRUE, FALSE),
      HedgeRule(".SPX", ".SPX", "H6", "INDEX", R(1), R(1000000), TRUE, TRUE),
      HedgeRule("Z", ".SPX", "H7", "INDEX", R(1), None, TRUE, FALSE) }

RuleLists == UNION { [1..k -> CoreRules] : k \in 0..MaxRules }

\* what the caller holds: the objects it handed in, and on a rerun the
\* results of the first run
Held(ps, rs, df, again, results) ==
    [inputs |-> <<ps, rs, df>>, again |-> again, results |-> results]

InitCore ==
    /\ positions \in CoreBooks
    /\ factor_df \in CoreTables
    /\ rules \in RuleLists
    /\ alpha = <<19, 20>>
    /\ exposures = EmptyDict
    /\ pnl = NotRunTable
    /\ port = <<>>
    /\ var_out = <<>>
    /\ hedges = <<>>
    /\ op = "init"
    /\ saved = Held(positions, rules, factor_df, FALSE, <<>>)
    /\ pnl_in = <<>>
    /\ window = 0
    /\ roll = <<>>
    /\ es_out = <<>>
    /\ limits_out = <<>>
    /\ risk_var = <<>>
    /\ beta_out = <<>>
    /\ TestsNotRun
    /\ breach = <<>>
    /\ book_rows = <<>>

CoreFrame == UNCHANGED <<alpha, pnl_in, window, roll, es_out, limits_out, risk_var,
                         beta_out, testVars, breach, book_rows>>

\* exposures = book.exposure_by_factor(); on a rerun the first results are kept
CoreExposure ==
    /\ \/ op = "init"
       \/ op = "build" /\ ~saved.again
    /\ exposures' = exposure_by_factor(positions)
    /\ saved' = IF op = "build"
                THEN [saved EXCEPT !.again = TRUE,
                                   !.results = <<exposures, pnl, port, var_out, hedges>>]
                ELSE saved
    /\ op' = "exposure"
    /\ UNCHANGED <<positions, rules, factor_df, pnl, port, var_out, hedges>>
    /\ CoreFrame

\* pnl_by_pos = book.pnl_matrix(factors)
CoreMatrix ==
    /\ op = "exposure"
    /\ pnl' = pnl_matrix(positions, factor_df)
    /\ op' = "matrix"
    /\ UNCHANGED <<positions, rules, factor_df, exposures, port, var_out, hedges, saved>>
    /\ CoreFrame

\* port_pnl = book.portfolio_pnl(factors)
CorePortfolio ==
    /\ op = "matrix"
    /\ port' = portfolio_pnl(positions, factor_df)
    /\ op' = "portfolio"
    /\ UNCHANGED <<positions, rules, factor_df, exposures, pnl, var_out, hedges, saved>>
    /\ CoreFrame

\* var_unhedged = TradingBook.historical_var(port_pnl, alpha=alpha)
CoreVar ==
    /\ op = "portfolio"
    /\ var_out' = historical_var(port, alpha)
    /\ op' = "var"
    /\ UNCHANGED <<positions, rules, factor_df, exposures, pnl, port, hedges, saved>>
    /\ CoreFrame

\* a plausible slip: the hedges are appended to the book's own list
CoreBuildInPlace ==
    /\ op = "var"
    /\ hedges' = build_hedges(positions, rules, factor_df)
    /\ positions' = positions \o hedges'
    /\ op' = "build"
    /\ UNCHANGED <<rules, factor_df, exposures, pnl, port, var_out, saved>>
    /\ CoreFrame

\* hedge_positions = build_hedges(book, rules, factors_df=factors)
CoreBuild ==
    /\ op = "var"
    /\ hedges' = build_hedges(positions, rules, factor_df)
    /\ op' = "build"
    /\ UNCHANGED <<positions, rules, factor_df, exposures, pnl, port, var_out, saved>>
    /\ CoreFrame

NextCore ==
    \/ CoreExposure
    \/ CoreMatrix
    \/ CorePortfolio
    \/ CoreVar
    \/ CoreBuild

SpecCore == InitCore /\ [][NextCore]_vars

----------------------------------------------------------------------------
(* The coverage tests of pages/4_backtesting.py: kupiec_test and            *)
(* christoffersen_test on a boolean breach array.  The likelihood ratio     *)
(* and the p-value are modelled by their kind: "nan", "finite" or "inf".    *)

\* int(exceed.sum())
CountTrue(e) == Cardinality({ i \in 1..Len(e) : e[i] })

RECURSIVE BitsBelowOne(_, _)
\* the largest k with num/den <= 2^-k, for 0 < num <= den
BitsBelowOne(num, den) ==
    IF num > 0 /\ 2 * num <= den THEN 1 + BitsBelowOne(2 * num, den) ELSE 0

\* a double product at or below 2^-(DoubleMinBits + 1) is 0.0: the smallest
\* positive double is 2^-1074
DoubleMinBits == 1075

\* p ** k * (1 - p) ** m is certainly 0.0 in double arithmetic
PowersUnderflow(p, k, m) ==
    k * BitsBelowOne(p[1], p[2]) + m * BitsBelowOne(p[2] - p[1], p[2]) > DoubleMinBits

\* den = (1 - phat) ** (n - x) * (phat ** x) is 0.0; phat = x/n is clamped
\* into [1e-12, 1 - 1e-12], which leaves den near 1 when x = 0 or x = n
DenIsZero(n, x) == 0 < x /\ x < n /\ PowersUnderflow(Frac(x, n), x, n - x)

\* num = (1 - p) ** (n - x) * (p ** x) is 0.0
NumIsZero(n, x, p) == PowersUnderflow(p, x, n - x)

\* kupiec_test(exceed, alpha)
kupiec_test(e, a) ==
    LET n == Len(e)
        x == CountTrue(e)
        p == RSub(R(1), a)
    IN  IF n = 0
        THEN Returned([LR_uc |-> "nan", p_value |-> "nan", breaches |-> x, n |-> n])
        ELSE IF DenIsZero(n, x) THEN Raised("ZeroDivisionError")
        ELSE Returned([LR_uc |-> IF NumIsZero(n, x, p) THEN "inf" ELSE "finite",
                       p_value |-> "finite", breaches |-> x, n |-> n])

\* a plausible slip: the two shifted views are exchanged
TransitionsSwapped(e, a, b) ==
    LET prev == SubSeq(e, 2, Len(e))
        next == SubSeq(e, 1, Len(e) - 1)
    IN  Cardinality({ k \in 1..Len(prev) : prev[k] = a /\ next[k] = b })

\* np.sum((x[:-1] == a) & (x[1:] == b))
Transitions(e, a, b) ==
    LET prev == SubSeq(e, 1, Len(e) - 1)
        next == SubSeq(e, 2, Len(e))
    IN  Cardinality({ k \in 1..Len(prev) : prev[k] = a /\ next[k] = b })

\* christoffersen_test(exceed); its local estimates are kept with the result
christoffersen_test(e) ==
    IF Len(e) < 2 THEN Returned([LR_ind |-> "nan", p_value |-> "nan"])
    ELSE LET n00 == Transitions(e, FALSE, FALSE)
             n01 == Transitions(e, FALSE, TRUE)
             n10 == Transitions(e, TRUE, FALSE)
             n11 == Transitions(e, TRUE, TRUE)
         IN  Returned([LR_ind |-> "finite", p_value |-> "finite",
                       n00 |-> n00, n01 |-> n01, n10 |-> n10, n11 |-> n11,
                       p01 |-> IF n00 + n01 > 0 THEN Frac(n01, n00 + n01) ELSE R(0),
                       p11 |-> IF n10 + n11 > 0 THEN Frac(n11, n10 + n11) ELSE R(0),
                       pi |-> Frac(n01 + n11, n00 + n01 + n10 + n11)])

----------------------------------------------------------------------------
(* The coverage-test specification: a breach array and a confidence level,  *)
(* each test run on it.                                                     *)

MaxBreachLen == 5  \* longest enumerated breach array

\* every breach array of up to MaxBreachLen days
ShortArrays == UNION { [1..n -> BOOLEAN] : n \in 0..MaxBreachLen }

\* a breach on every second day, over n days
Alternating(n) == [t \in 1..n |-> t % 2 = 0]

\* alternating arrays of about four years of days, around the length at
\* which 0.5 ** n leaves the double range
LongArrays == { Alternating(2 * m) : m \in (DoubleMinBits \div 2)..(DoubleMinBits \div 2 + 1) }

InitTests ==
    /\ exceed \in ShortArrays \cup LongArrays
    /\ alpha \in Alphas
    /\ kupiec = <<>>
    /\ christoffersen = <<>>
    /\ op = "init"
    /\ saved = NoSaved
    /\ RiskNotRun
    /\ breach = <<>>
    /\ book_rows = <<>>
    /\ positions = <<>>
    /\ factor_df = NotRunTable
    /\ exposures = EmptyDict
    /\ pnl = NotRunTable
    /\ port = <<>>
    /\ rules = <<>>
    /\ hedges = <<>>
    /\ pnl_in = <<>>
    /\ window = 0
    /\ roll = <<>>

TestsFrame == UNCHANGED <<positions, factor_df, exposures, pnl, port, rules, book_rows, hedges,
                          pnl_in, window, alpha, roll, saved, riskVars, breach,
                          exceed>>

\* k = kupiec_test(df["Breach"].values, alpha=float(alpha))
RunKupiec ==
    /\ op = "init"
    /\ kupiec' = kupiec_test(exceed, alpha)
    /\ op' = "kupiec"
    /\ UNCHANGED christoffersen
    /\ TestsFrame

\* ch = christoffersen_test(df["Breach"].values)
RunChristoffersen ==
    /\ op = "init"
    /\ christoffersen' = christoffersen_test(exceed)
    /\ op' = "christoffersen"
    /\ UNCHANGED kupiec
    /\ TestsFrame

NextTests ==
    \/ RunKupiec
    \/ RunChristoffersen

SpecTests == InitTests /\ [][NextTests]_vars

----------------------------------------------------------------------------
(* Properties of the book / PnL specification *)

EnabledOn(ps, f) == { i \in 1..Len(ps) : ps[i].enabled /\ ps[i].ric = f }

RECURSIVE SumExposure(_, _)
SumExposure(ps, idx) ==
    IF idx = {} THEN R(0)
    ELSE LET i == CHOOSE x \in idx : TRUE
         IN  RAdd(exposure_usd(ps[i]), SumExposure(ps, idx \ {i}))

\* enabled positions whose factor id is a column of the table
Contributing(ps, df) ==
    { i \in 1..Len(ps) : ps[i].enabled /\ ps[i].ric \in DOMAIN df.cols }

\* enabled positions whose factor id is no column of the table
Dropped(ps, df) ==
    { i \in 1..Len(ps) : ps[i].enabled /\ ps[i].ric \notin DOMAIN df.cols }

RECURSIVE SumPnl(_, _, _, _)
SumPnl(ps, df, idx, t) ==
    IF idx = {} THEN R(0)
    ELSE LET i == CHOOSE x \in idx : TRUE
         IN  RAdd(RMul(df.cols[ps[i].ric][t], exposure_usd(ps[i])),
                  SumPnl(ps, df, idx \ {i}, t))

NoMissing(df) == \A c \in DOMAIN df.cols : \A t \in 1..df.n : ~IsNaN(df.cols[c][t])

DistinctNames(ps, idx) == \A i, j \in idx : ps[i].name = ps[j].name => i = j

\* C2: the net exposure of every factor is the sum of exposure_usd over
\* exactly the enabled positions on it (a factor with none has no entry);
\* disabling a position removes exactly its exposure from its factor and
\* leaves the others; re-enabling it restores every factor's value.
C2_NetExposure ==
    /\ DOMAIN exposures \subseteq FactorIds
    /\ \A f \in FactorIds :
          /\ f \in DOMAIN exposures <=> EnabledOn(positions, f) # {}
          /\ f \in DOMAIN exposures =>
                exposures[f] = SumExposure(positions, EnabledOn(positions, f))
    /\ op = "disable" =>
          \A f \in FactorIds :
              DictGet(exposures, f, R(0)) =
                  RSub(DictGet(saved.exp, f, R(0)),
                       IF f = positions[saved.idx].ric
                       THEN exposure_usd(positions[saved.idx]) ELSE R(0))
    /\ op = "reenable" => exposures = saved.exp

\* a position sharing its factor with another enabled one was disabled and
\* re-enabled
C2_Witness ==
    /\ op = "reenable"
    /\ \E j \in 1..Len(positions) :
          /\ j # saved.idx
          /\ positions[j].enabled
          /\ positions[j].ric = positions[saved.idx].ric
          /\ exposure_usd(positions[j]) # exposure_usd(positions[saved.idx])

\* C4 (as claimed): names do not affect computation: on a complete table
\* portfolio_pnl is, at each date, the sum over every contributing position
\* of factor move x exposure, and pnl_matrix has one column per such position.
C4_NamesIrrelevant ==
    (op = "run" /\ Contributing(positions, factor_df) # {} /\ NoMissing(factor_df)) =>
        /\ \A t \in 1..factor_df.n :
              port[t] = SumPnl(positions, factor_df, Contributing(positions, factor_df), t)
        /\ Cardinality(DOMAIN pnl.cols) = Cardinality(Contributing(positions, factor_df))

\* C9 (as claimed): when an enabled position's factor is no column of the
\* table, the other positions keep their PnL columns and the result carries
\* the names of the dropped positions.
C9_DroppedReported ==
    (/\ op = "run"
     /\ Dropped(positions, factor_df) # {}
     /\ DistinctNames(positions, 1..Len(positions))) =>
        /\ \A i \in Contributing(positions, factor_df) :
              pnl.cols[positions[i].name] =
                  Scale(factor_df.cols[positions[i].ric], exposure_usd(positions[i]))
        /\ "dropped" \in DOMAIN pnl
        /\ pnl.dropped = { positions[i].name : i \in Dropped(positions, factor_df) }

\* C10 (as claimed): portfolio_pnl has a value only on dates on which every
\* required factor column (the factor of a contributing position) has one.
C10_StrictAlignment ==
    op = "run" =>
        \A t \in DOMAIN port :
            ~IsNaN(port[t]) =>
                \A i \in Contributing(positions, factor_df) :
                    ~IsNaN(factor_df.cols[positions[i].ric][t])

\* the 1,000,000 x 0.5 equity position and the 100,000 dv01 rates position
IsScenarioEquity(p) ==
    /\ p.asset_class = "EQ"
    /\ p.notional_usd = R(1000000)
    /\ p.multiplier = <<1, 2>>

IsScenarioRates(p) == p.asset_class = "RATES" /\ p.dv01_usd_per_bp = R(100000)

\* C25 (as claimed): the pnl_matrix column of every enabled position whose
\* factor is a column of the table holds factor[t] x exposure_usd(position)
\* at every date, and no other column exists; the 1,000,000 x 0.5 equity
\* position on moves [0.01, -0.02, 0.005] gives [5000, -10000, 2500] and
\* the 100,000 dv01 rates position on +5 bp gives 500,000.
C25_ColumnValues ==
    op = "run" =>
        /\ DOMAIN pnl.cols =
              { positions[i].name : i \in Contributing(positions, factor_df) }
        /\ \A i \in Contributing(positions, factor_df) :
              LET p == positions[i]
                  col == pnl.cols[p.name]
              IN  /\ \A t \in 1..factor_df.n :
                        col[t] = RMul(factor_df.cols[p.ric][t], exposure_usd(p))
                  /\ (IsScenarioEquity(p) /\ factor_df.cols[p.ric] =
                          <<<<1, 100>>, <<-1, 50>>, <<1, 200>>>>) =>
                        col = <<R(5000), R(-10000), R(2500)>>
                  /\ IsScenarioRates(p) =>
                        \A t \in 1..factor_df.n :
                            factor_df.cols[p.ric][t] = R(5) => col[t] = R(500000)

\* C26: when the PnL matrix has no column (no enabled position, or none
\* whose factor is a column of the table) portfolio_pnl returns a series
\* over the dates of the table that holds no value; with at least one
\* column the result runs over the same dates.
C26_EmptyMatrix ==
    op = "run" =>
        /\ Len(port) = factor_df.n
        /\ DOMAIN pnl.cols = {} <=> Contributing(positions, factor_df) = {}
        /\ DOMAIN pnl.cols = {} => \A t \in 1..factor_df.n : IsNaN(port[t])

\* an enabled position whose factor is no column of a table that has rows
\* and a column: the series has the table's dates and no value
C26_Witness ==
    /\ op = "run"
    /\ Dropped(positions, factor_df) # {}
    /\ Contributing(positions, factor_df) = {}
    /\ DOMAIN factor_df.cols # {}
    /\ Len(port) = NumDates
    /\ \A t \in 1..NumDates : IsNaN(port[t])

----------------------------------------------------------------------------
(* Properties of the exposure specification *)

\* the exposure the formula of the specification gives a position
FormulaExposure(p) ==
    IF p.asset_class = "RATES"
    THEN p.dv01_usd_per_bp
    ELSE RMul(p.notional_usd, p.multiplier)

\* the size field the exposure of a position is taken from
SizeField(p) ==
    IF p.asset_class = "RATES" THEN "dv01_usd_per_bp" ELSE "notional_usd"

\* the fields the exposure of a position depends on
ExposureFields(p) ==
    IF p.asset_class = "RATES"
    THEN {"dv01_usd_per_bp"}
    ELSE {"notional_usd", "multiplier"}

FormulaHolds ==
    /\ exposures = [r \in {positions[1].ric} |-> FormulaExposure(positions[1])]
    /\ op = "scale" => saved.after = FormulaExposure(positions[1])

\* C24 (as claimed): exposure_usd is dv01_usd_per_bp for RATES and
\* notional_usd x multiplier otherwise; for every position, scaling its
\* size field (dv01_usd_per_bp for RATES, notional_usd otherwise) by k
\* scales the exposure by k, and scaling its multiplier by k scales the
\* exposure by k.
C24_LinearEverywhere ==
    /\ FormulaHolds
    /\ (op = "scale" /\ saved.field \in {SizeField(positions[1]), "multiplier"}) =>
          saved.after = RMul(saved.k, saved.before)

\* C24 (amended): exposure_usd is dv01_usd_per_bp for RATES and
\* notional_usd x multiplier otherwise; scaling dv01_usd_per_bp of a RATES
\* position, or notional_usd or multiplier of any other position, by k
\* scales the exposure by k, and scaling any other field (the multiplier
\* or notional of a RATES position, the dv01 of any other) leaves the
\* exposure as it was.
C24_Exposure ==
    /\ FormulaHolds
    /\ op = "scale" =>
          IF saved.field \in ExposureFields(positions[1])
          THEN saved.after = RMul(saved.k, saved.before)
          ELSE saved.after = saved.before

\* the multiplier of a RATES position with dv01 100,000 is doubled and the
\* exposure stays 100,000
C24_Witness ==
    /\ op = "scale"
    /\ positions[1].asset_class = "RATES"
    /\ saved.field = "multiplier"
    /\ saved.k = R(2)
    /\ positions[1].multiplier = R(-4)
    /\ saved.before = R(100000)
    /\ saved.after = R(100000)

----------------------------------------------------------------------------
(* Properties of the blotter specification *)

\* the value a numeric cell stands for: a blank cell is the field's default
Entered(x, d) == IF x = None THEN d ELSE x

\* the rows the validity filter of the page that ran lets through
SurvivingRows ==
    LET strip == op = "app"
        keep(r) == IF op = "var"
                   THEN KeepsRow(RowPosition(r, strip))
                   ELSE KeepsEnabledRow(RowPosition(r, strip))
    IN  SelectSeq(book_rows, keep)

\* C30 (as claimed): the rows that survive the validity filter, and only
\* they, become the book's positions, in order, and each such Position
\* carries the notional_usd, multiplier and dv01_usd_per_bp entered in its
\* row; a non-RATES row with multiplier 0 yields multiplier 0 and
\* exposure 0.
C30_FieldsPreserved ==
    op \in {"var", "app", "backtest"} =>
        /\ Len(positions) = Len(SurvivingRows)
        /\ \A j \in 1..Len(positions) :
              LET r == SurvivingRows[j]
                  p == positions[j]
              IN  /\ p.notional_usd = Entered(r.notional_usd, R(0))
                  /\ p.multiplier = Entered(r.multiplier, R(1))
                  /\ p.dv01_usd_per_bp = Entered(r.dv01_usd_per_bp, R(0))
                  /\ (r.multiplier = R(0) /\ p.asset_class # "RATES") =>
                        exposure_usd(p) = R(0)

----------------------------------------------------------------------------
(* Properties of the rolling specification *)

Defined(row) == ~IsNaN(row.VaR) /\ ~IsNaN(row.ES)

Undefined(row) == IsNaN(row.VaR) /\ IsNaN(row.ES)

\* number of non-missing observations strictly before index t
PriorObs(series, t) == Cardinality({ u \in 1..(t - 1) : ~IsNaN(series[u]) })

NumObs(series) == Cardinality({ u \in 1..Len(series) : ~IsNaN(series[u]) })

\* the positions of the window observations of index t: the last `window`
\* non-missing observations strictly before t
InWindow(series, w, t, u) ==
    /\ u < t
    /\ ~IsNaN(series[u])
    /\ Cardinality({ x \in (u + 1)..(t - 1) : ~IsNaN(series[x]) }) < w

\* C3: rolling_var_es is strictly out-of-sample: replacing the observation
\* at an index by another non-missing value leaves VaR and ES at that index
\* unchanged, and changes only rows whose window holds the replaced one.
C3_OutOfSample ==
    op = "replace" =>
        /\ roll[saved.idx] = saved.prev[saved.idx]
        /\ \A t \in 1..Len(pnl_in) :
              ~InWindow(pnl_in, window, t, saved.idx) => roll[t] = saved.prev[t]

\* an observation whose own VaR/ES is defined was replaced, and the
\* replacement changed a later row
C3_Witness ==
    /\ op = "replace"
    /\ Defined(roll[saved.idx])
    /\ \E t \in 1..Len(pnl_in) : roll[t] # saved.prev[t]

\* C5 (as claimed): on a series without missing observations, VaR and ES are
\* defined at every index with at least `window` prior observations, for
\* every series length and window, and undefined at every index with fewer.
C5_DefinedFromWindow ==
    (op # "init" /\ NumObs(pnl_in) = Len(pnl_in)) =>
        \A t \in 1..Len(pnl_in) :
            IF PriorObs(pnl_in, t) >= window
            THEN Defined(roll[t]) ELSE Undefined(roll[t])

\* C5 (amended): VaR and ES are defined exactly at the indices whose own
\* observation is present and that have at least `window` prior non-missing
\* observations, provided the series holds at least window + 5 non-missing
\* observations; every other index is undefined (missing), never zero.
C5_DefinedFromWindowGuarded ==
    op # "init" =>
        \A t \in 1..Len(pnl_in) :
            IF /\ ~IsNaN(pnl_in[t])
               /\ PriorObs(pnl_in, t) >= window
               /\ NumObs(pnl_in) >= window + MinExtraObs
            THEN Defined(roll[t]) ELSE Undefined(roll[t])

\* a run with defined rows, undefined leading rows and a missing observation
C5_Witness ==
    /\ op = "roll"
    /\ \E t \in 1..Len(pnl_in) : Defined(roll[t]) /\ PriorObs(pnl_in, t) = window
    /\ \E t \in 1..Len(pnl_in) : Undefined(roll[t]) /\ PriorObs(pnl_in, t) < window
    /\ \E t \in 1..Len(pnl_in) : IsNaN(pnl_in[t])

\* C28 (as claimed): at every index t with at least `window` prior
\* observations, the rolling VaR_t and ES_t equal TradingBook.historical_var
\* and historical_es applied to the window slice pnl[t-window : t), their
\* 30-observation minimum included.
C28_RollingAgrees ==
    op \in {"roll", "replace"} =>
        \A t \in (window + 1)..Len(pnl_in) :
            LET slice == SubSeq(pnl_in, t - window, t - 1) IN
            /\ roll[t].VaR = historical_var(slice, alpha)
            /\ roll[t].ES = historical_es(slice, alpha)

\* dates on which the Breach column is defined
BreachDates == { breach.rows[k] : k \in 1..Len(breach.rows) }

\* position of date t in the Breach column
BreachRow(t) == CHOOSE k \in 1..Len(breach.rows) : breach.rows[k] = t

\* C16: the Breach column is defined exactly on the dates where both the
\* PnL and the rolling VaR are defined, and on each such date it is true
\* iff pnl + VaR < 0 (a PnL equal to -VaR is not a breach).
C16_BreachStrict ==
    op \in {"roll", "replace"} =>
        /\ BreachDates = { t \in 1..Len(pnl_in) :
                             ~IsNaN(pnl_in[t]) /\ ~IsNaN(roll[t].VaR) }
        /\ \A t \in BreachDates :
              breach.Breach[BreachRow(t)] <=> RAdd(pnl_in[t], roll[t].VaR)[1] < 0

\* one date breaches, another has a PnL exactly equal to -VaR, a third has
\* no rolling VaR
C16_Witness ==
    /\ op \in {"roll", "replace"}
    /\ \E t \in BreachDates : breach.Breach[BreachRow(t)]
    /\ \E t \in BreachDates : /\ RAdd(pnl_in[t], roll[t].VaR) = R(0)
                               /\ ~breach.Breach[BreachRow(t)]
    /\ \E t \in 1..Len(pnl_in) : ~IsNaN(pnl_in[t]) /\ t \notin BreachDates

----------------------------------------------------------------------------
(* Properties of the hedge specification *)

TheRule == rules[1]

Target == Strip(TheRule.target_factor_ric)

\* the plain net exposure of factor f: the sum over its enabled positions
NetExposure(ps, f) == SumExposure(ps, EnabledOn(ps, f))

\* max(-m, min(x, m))
ClipInto(x, m) ==
    LET low == IF RLt(m, x) THEN m ELSE x
    IN  IF RLt(low, RNeg(m)) THEN RNeg(m) ELSE low

\* -current_exposure / hedge_multiplier of the rule, before any cap
RawOf(ps, r, df) == RDiv(RNeg(CurrentExposure(ps, r, df)), EffectiveMultiplier(r))

NonRatesHedgeBuilt ==
    /\ op = "build"
    /\ hedges # <<>>
    /\ UpperStrip(TheRule.hedge_asset_class) # "RATES"

\* C1 (as claimed): an uncapped rule without beta proxy and with a nonzero
\* multiplier, hedging through any hedge factor, leaves the target factor
\* with net exposure 0 in the book extended with its hedge.
C1_TargetZeroed ==
    (/\ op = "hedged"
     /\ ~TheRule.proxy_beta
     /\ TheRule.max_abs_notional = None
     /\ TheRule.hedge_multiplier # R(0)) =>
        DictGet(exposure_by_factor(positions), Target, R(0)) = R(0)

\* C1 (amended): the same, for a rule whose hedge factor is its target factor.
C1_TargetZeroedSameFactor ==
    (/\ op = "hedged"
     /\ ~TheRule.proxy_beta
     /\ TheRule.max_abs_notional = None
     /\ TheRule.hedge_multiplier # R(0)
     /\ Strip(TheRule.hedge_factor_ric) = Target) =>
        DictGet(exposure_by_factor(positions), Target, R(0)) = R(0)

\* two positions on the target were hedged by a non-RATES hedge on the target
C1_Witness ==
    /\ op = "hedged"
    /\ ~TheRule.proxy_beta
    /\ TheRule.max_abs_notional = None
    /\ TheRule.hedge_multiplier = R(-2)
    /\ TheRule.hedge_asset_class = "INDEX"
    /\ Strip(TheRule.hedge_factor_ric) = Target
    /\ Cardinality(EnabledOn(positions, Target)) = 3
    /\ positions[3].notional_usd = R(1500000)

\* C6 (as claimed): with any supplied cap, a non-RATES hedge notional is
\* -current_exposure / hedge_multiplier clamped into [-cap, +cap], so its
\* magnitude never exceeds the cap; raw 3,000,000 with cap 1,000,000 gives
\* exactly +-1,000,000.
C6_Clamped ==
    (NonRatesHedgeBuilt /\ TheRule.max_abs_notional # None) =>
        LET cap == TheRule.max_abs_notional
            raw == RawOf(positions, TheRule, factor_df)
            notional == hedges[1].notional_usd
        IN  /\ notional = ClipInto(raw, cap)
            /\ RLe(RAbs(notional), cap)
            /\ (RAbs(raw) = R(3000000) /\ cap = R(1000000)) => RAbs(notional) = R(1000000)

\* C6 (amended): with a supplied cap > 0 the notional is the raw notional
\* clamped into [-cap, +cap]; a supplied cap <= 0 is ignored and the
\* notional is the raw notional (a zero multiplier counting as 1.0).
C6_ClampedPositiveCap ==
    (NonRatesHedgeBuilt /\ TheRule.max_abs_notional # None) =>
        LET cap == TheRule.max_abs_notional
            raw == RawOf(positions, TheRule, factor_df)
            notional == hedges[1].notional_usd
        IN  IF RLt(R(0), cap)
            THEN /\ notional = ClipInto(raw, cap)
                 /\ RLe(RAbs(notional), cap)
                 /\ (RAbs(raw) = R(3000000) /\ cap = R(1000000)) =>
                        RAbs(notional) = R(1000000)
            ELSE notional = raw

\* raw notional -3,000,000 capped at 1,000,000
C6_Witness ==
    /\ NonRatesHedgeBuilt
    /\ TheRule.max_abs_notional = R(1000000)
    /\ RawOf(positions, TheRule, factor_df) = R(-3000000)
    /\ hedges[1].notional_usd = R(-1000000)

\* whether the cap truncated the raw notional of the rule
Truncated(ps, r, df) ==
    /\ UpperStrip(r.hedge_asset_class) # "RATES"
    /\ Clamp(RawOf(ps, r, df), r.max_abs_notional) # RawOf(ps, r, df)

\* C7 (as claimed): every hedge position returned by build_hedges carries a
\* "was clamped" indicator, true exactly when the cap truncated the notional.
C7_ClampObservable ==
    (op = "build" /\ hedges # <<>>) =>
        /\ "was_clamped" \in DOMAIN hedges[1]
        /\ hedges[1].was_clamped <=> Truncated(positions, TheRule, factor_df)

\* enabled EQ/INDEX positions whose factor has a series
ProxyLegs(ps, df) ==
    { i \in 1..Len(ps) : /\ ps[i].enabled
                         /\ ps[i].asset_class \in {"EQ", "INDEX"}
                         /\ ps[i].ric \in DOMAIN df.cols }

RECURSIVE BetaWeighted(_, _, _, _)
BetaWeighted(ps, df, tg, idx) ==
    IF idx = {} THEN R(0)
    ELSE LET i == CHOOSE x \in idx : TRUE
             b == IF ps[i].ric = tg THEN R(1)
                  ELSE Beta(df.cols[ps[i].ric], df.cols[tg])
         IN  RAdd(RMul(exposure_usd(ps[i]), b), BetaWeighted(ps, df, tg, idx \ {i}))

\* the exposure the claim selects: beta-weighted for any target with a series
ClaimedExposure(ps, r, df) ==
    LET tg == Strip(r.target_factor_ric) IN
    IF r.proxy_beta /\ ~IsNone(df) /\ tg \in DOMAIN df.cols
    THEN BetaWeighted(ps, df, tg, ProxyLegs(ps, df))
    ELSE NetExposure(ps, tg)

\* the same, with the beta proxy applying to the target ".SPX" only
ClaimedExposureSpx(ps, r, df) ==
    LET tg == Strip(r.target_factor_ric) IN
    IF r.proxy_beta /\ tg = ".SPX" /\ ~IsNone(df) /\ tg \in DOMAIN df.cols
    THEN BetaWeighted(ps, df, tg, ProxyLegs(ps, df))
    ELSE NetExposure(ps, tg)

\* an uncapped hedge neutralizes exactly the exposure cur, and is left out
\* exactly when cur is negligible
Neutralizes(cur) ==
    IF Negligible(cur) THEN hedges = <<>>
    ELSE /\ Len(hedges) = 1
         /\ exposure_usd(hedges[1]) = RNeg(cur)

\* C8 (as claimed): for every target, the exposure build_hedges neutralizes
\* is the beta-weighted sum when the proxy is requested and the target's
\* series is present, and the plain net exposure of the target otherwise.
C8_ExposureSelection ==
    (op = "build" /\ ~SkipsRule(TheRule) /\ TheRule.max_abs_notional = None) =>
        Neutralizes(ClaimedExposure(positions, TheRule, factor_df))

\* C8 (amended): the beta-weighted sum is used only for the target ".SPX"
\* (proxy requested and the ".SPX" series present); every other rule
\* neutralizes the plain net exposure of its target.
C8_ExposureSelectionSpx ==
    (op = "build" /\ ~SkipsRule(TheRule) /\ TheRule.max_abs_notional = None) =>
        Neutralizes(ClaimedExposureSpx(positions, TheRule, factor_df))

\* a proxy hedge of ".SPX" over a book holding an equity leg on A with beta
\* 1/2 and a rates leg that stays out of the sum
C8_Witness ==
    /\ op = "build"
    /\ hedges # <<>>
    /\ TheRule.proxy_beta
    /\ Target = ".SPX"
    /\ DOMAIN factor_df.cols = {".SPX", "A"}
    /\ Beta(factor_df.cols["A"], factor_df.cols[".SPX"]) = <<1, 2>>
    /\ \E i \in 1..Len(positions) :
          positions[i].enabled /\ positions[i].asset_class = "EQ" /\ positions[i].ric = "A"
    /\ \E i \in 1..Len(positions) :
          positions[i].enabled /\ positions[i].asset_class = "RATES"

\* C20: a RATES rule with non-negligible current exposure emits a hedge whose
\* dv01_usd_per_bp is -current_exposure whatever max_abs_notional and
\* hedge_multiplier the rule carries, and whose exposure_usd is
\* -current_exposure.
C20_RatesNeverClamped ==
    LET cur == ClaimedExposureSpx(positions, TheRule, factor_df) IN
    (/\ op = "build"
     /\ ~SkipsRule(TheRule)
     /\ UpperStrip(TheRule.hedge_asset_class) = "RATES"
     /\ ~Negligible(cur)) =>
        /\ Len(hedges) = 1
        /\ hedges[1].asset_class = "RATES"
        /\ hedges[1].dv01_usd_per_bp = RNeg(cur)
        /\ exposure_usd(hedges[1]) = RNeg(cur)

\* a RATES rule with cap 1,000,000 and multiplier -2 hedged an exposure of
\* 3,000,000 in full
C20_Witness ==
    /\ op = "build"
    /\ UpperStrip(TheRule.hedge_asset_class) = "RATES"
    /\ TheRule.max_abs_notional = R(1000000)
    /\ TheRule.hedge_multiplier = R(-2)
    /\ Len(hedges) = 1
    /\ hedges[1].dv01_usd_per_bp = R(-3000000)

\* C22: a rule with hedge_multiplier = 0 is treated as multiplier 1.0: its
\* non-RATES hedge carries multiplier 1.0 and, before any cap, notional
\* -current_exposure; a rule with a nonzero multiplier emits a position
\* carrying that multiplier.
C22_ZeroMultiplier ==
    NonRatesHedgeBuilt =>
        LET cur == ClaimedExposureSpx(positions, TheRule, factor_df) IN
        IF TheRule.hedge_multiplier = R(0)
        THEN /\ hedges[1].multiplier = R(1)
             /\ TheRule.max_abs_notional = None => hedges[1].notional_usd = RNeg(cur)
        ELSE hedges[1].multiplier = TheRule.hedge_multiplier

\* an uncapped rule with multiplier 0 hedged an exposure of 3,000,000 with a
\* notional of -3,000,000 at multiplier 1.0
C22_Witness ==
    /\ NonRatesHedgeBuilt
    /\ TheRule.hedge_multiplier = R(0)
    /\ TheRule.max_abs_notional = None
    /\ hedges[1].multiplier = R(1)
    /\ hedges[1].notional_usd = R(-3000000)

\* C29: a non-RATES hedge never over-hedges or reverses direction: its
\* exposure_usd = notional x multiplier has the sign opposite to the current
\* exposure and magnitude at most |current exposure|, with equality exactly
\* when the cap did not truncate the notional.
C29_NoOverHedge ==
    NonRatesHedgeBuilt =>
        LET cur == ClaimedExposureSpx(positions, TheRule, factor_df)
            h == exposure_usd(hedges[1])
        IN  /\ RLt(R(0), cur) => RLt(h, R(0))
            /\ RLt(cur, R(0)) => RLt(R(0), h)
            /\ RLe(RAbs(h), RAbs(cur))
            /\ RAbs(h) = RAbs(cur) <=> ~Truncated(positions, TheRule, factor_df)

\* a short exposure hedged through a negative multiplier and truncated by
\* the cap: the hedge is long and smaller than the exposure
C29_Witness ==
    /\ NonRatesHedgeBuilt
    /\ TheRule.hedge_multiplier = R(-2)
    /\ Truncated(positions, TheRule, factor_df)
    /\ RLt(ClaimedExposureSpx(positions, TheRule, factor_df), R(0))
    /\ RLt(R(0), exposure_usd(hedges[1]))
    /\ RLt(exposure_usd(hedges[1]),
           RAbs(ClaimedExposureSpx(positions, TheRule, factor_df)))

----------------------------------------------------------------------------
(* Properties of the core specification *)

\* the rules of the list that are enabled
EnabledRules == { i \in 1..Len(rules) : rules[i].enabled }

\* the rules whose target, hedge factor and asset class are usable
WellFormedRules ==
    { i \in 1..Len(rules) :
        /\ Strip(rules[i].target_factor_ric) # ""
        /\ Strip(rules[i].hedge_factor_ric) # ""
        /\ UpperStrip(rules[i].hedge_asset_class) \in {"EQ", "FX", "INDEX", "RATES"} }

\* the rules whose current exposure is at or above the negligible threshold
ExposedRules ==
    { i \in 1..Len(rules) :
        ~Negligible(ClaimedExposureSpx(positions, rules[i], factor_df)) }

\* the rules a hedge of the result is named after
EmittingRules == { i \in 1..Len(rules) : \E j \in 1..Len(hedges) :
                      hedges[j].name = rules[i].hedge_name }

\* the hedges of the result named after rule i
HedgesOf(i) == { j \in 1..Len(hedges) : hedges[j].name = rules[i].hedge_name }

\* the rules of the list bear different hedge names
DistinctHedgeNames ==
    \A i, j \in 1..Len(rules) : rules[i].hedge_name = rules[j].hedge_name => i = j

\* the hedges follow the order of the rules they are named after
InRuleOrder ==
    \A i, j \in 1..Len(rules) : \A a \in HedgesOf(i), b \in HedgesOf(j) :
        i < j => a < b

\* C21 (as claimed): a rule whose exposure is negligible produces no hedge
\* and does not stop later rules, and every enabled rule whose exposure is
\* at or above the threshold produces exactly one hedge.
C21_EnabledEmits ==
    (op = "build" /\ DistinctHedgeNames) =>
        /\ \A i \in 1..Len(rules) :
              Cardinality(HedgesOf(i)) =
                  IF i \in EnabledRules \cap ExposedRules THEN 1 ELSE 0
        /\ Len(hedges) = Cardinality(EnabledRules \cap ExposedRules)
        /\ InRuleOrder

\* C21 (amended): a rule whose exposure is negligible produces no hedge and
\* does not stop later rules; a rule produces exactly one hedge when it is
\* enabled, its target, hedge factor and asset class are usable and its
\* exposure is at or above the threshold, and no hedge otherwise.
C21_SkipAndEmit ==
    (op = "build" /\ DistinctHedgeNames) =>
        /\ \A i \in 1..Len(rules) :
              Cardinality(HedgesOf(i)) =
                  IF i \in EnabledRules \cap WellFormedRules \cap ExposedRules
                  THEN 1 ELSE 0
        /\ Len(hedges) =
              Cardinality(EnabledRules \cap WellFormedRules \cap ExposedRules)
        /\ InRuleOrder

\* a rule whose target no position maps to, followed by a rule that hedges
\* 1,500,000 of factor A with -3,000,000 of .SPX
C21_Witness ==
    /\ op = "build"
    /\ Len(rules) = 2
    /\ rules[1].hedge_name = "H7"
    /\ rules[2].hedge_name = "H1"
    /\ Len(hedges) = 1
    /\ hedges[1].name = "H1"
    /\ hedges[1].notional_usd = R(-3000000)

RECURSIVE RuleByRule(_, _, _, _)
RuleByRule(ps, rs, df, i) ==
    IF i > Len(rs) THEN <<>>
    ELSE build_hedges(ps, <<rs[i]>>, df) \o RuleByRule(ps, rs, df, i + 1)

\* C23: build_hedges on a rule list returns the concatenation, in input
\* order, of build_hedges on each single rule alone.
C23_RuleByRule ==
    op = "build" => hedges = RuleByRule(positions, rules, factor_df, 1)

\* the plain rule on factor A and the proxy rule on .SPX both emit, in order
C23_Witness ==
    /\ op = "build"
    /\ Len(rules) = 2
    /\ rules[1].hedge_name = "H1"
    /\ rules[2].hedge_name = "H6"
    /\ Len(hedges) = 2
    /\ hedges[1].name = "H1"
    /\ hedges[2].name = "H6"

----------------------------------------------------------------------------
(* Properties of the risk specification *)

\* the observations of the sample that are not missing
Obs == DropMissing(pnl_in)

NumLt(x, v) == Cardinality({ i \in 1..Len(x) : RLt(x[i], v) })

NumLe(x, v) == Cardinality({ i \in 1..Len(x) : RLe(x[i], v) })

\* the k-th smallest value of x, by counting
OrderStat(x, k) ==
    CHOOSE v \in { x[i] : i \in 1..Len(x) } : NumLt(x, v) < k /\ k <= NumLe(x, v)

\* the p-quantile of x by linear interpolation between order statistics
InterpolatedQuantile(x, p) ==
    LET n == Len(x)
        h == RMul(R(n - 1), p)
        j == h[1] \div h[2]
        lo == OrderStat(x, j + 1)
        hi == OrderStat(x, IF j + 2 > n THEN n ELSE j + 2)
    IN  RAdd(lo, RMul(RSub(h, R(j)), RSub(hi, lo)))

RECURSIVE WeightedSum(_, _)
\* sum over the values of S, each counted as often as it occurs in x
WeightedSum(S, x) ==
    IF S = {} THEN R(0)
    ELSE LET v == CHOOSE w \in S : TRUE
         IN  RAdd(RMul(v, R(NumLe(x, v) - NumLt(x, v))), WeightedSum(S \ {v}, x))

\* the negated mean of the values of x at or below q, NaN when there is none
TailLoss(x, q) ==
    LET S == { x[i] : i \in 1..Len(x) } \cap { v \in { x[i] : i \in 1..Len(x) } : RLe(v, q) }
    IN  IF S = {} THEN NaN
        ELSE RNeg(RDiv(WeightedSum(S, x), R(NumLe(x, q))))

VarComputed == op \in {"var", "limits", "alpha"}

\* C11: TradingBook.historical_var returns the sentinel exactly when fewer
\* than 30 observations remain after missing values are removed; with 30 or
\* more it returns -q, q the (1-alpha)-quantile by linear interpolation
\* between order statistics; the sample [5000, -10000, 2500] at alpha 0.95
\* gives the sentinel.
C11_VarSentinel ==
    VarComputed =>
        /\ IsNaN(var_out) <=> Len(Obs) < 30
        /\ Len(Obs) >= 30 =>
              var_out = RNeg(InterpolatedQuantile(Obs, RSub(R(1), alpha)))
        /\ (pnl_in = ScenarioPnl /\ alpha = <<19, 20>>) => IsNaN(var_out)

\* a sample of 31 dates with one missing: 30 observations, VaR interpolated
\* between the two lowest order statistics
C11_Witness ==
    /\ op = "var"
    /\ Len(pnl_in) = 31
    /\ Len(Obs) = 30
    /\ RLt(R(-2500), var_out)
    /\ RLt(var_out, R(10000))

\* C12 (as claimed): src/risk/var.py historical_var returns the sentinel,
\* and raises nothing, for every sample of fewer than 30 observations,
\* the empty sample included.
C12_NeverRaises ==
    (op = "riskvar" /\ Len(pnl_in) < 30) =>
        /\ risk_var.raised = ""
        /\ IsNaN(risk_var.value)

\* C13: whenever historical_es and historical_var are both defined,
\* historical_es >= historical_var.
C13_EsAtLeastVar ==
    (VarComputed /\ ~IsNaN(var_out) /\ ~IsNaN(es_out)) => RLe(var_out, es_out)

\* both are defined and ES is strictly above VaR
C13_Witness ==
    /\ op = "var"
    /\ ~IsNaN(var_out)
    /\ ~IsNaN(es_out)
    /\ RLt(var_out, es_out)

\* C14: on a fixed sample of at least 30 observations, historical_var does
\* not decrease when alpha increases.
C14_VarMonotone ==
    (op = "alpha" /\ Len(Obs) >= 30) =>
        /\ RLe(saved.alpha, alpha) => RLe(saved.var, var_out)
        /\ RLe(alpha, saved.alpha) => RLe(var_out, saved.var)

\* alpha was raised and VaR rose strictly
C14_Witness ==
    /\ op = "alpha"
    /\ Len(Obs) >= 30
    /\ RLt(saved.alpha, alpha)
    /\ RLt(saved.var, var_out)

\* C15: historical_es gives the sentinel when fewer than 30 observations
\* remain (as historical_var does), otherwise the negated mean of the
\* observations at or below the same quantile q, the sentinel when there is
\* none; the copies of the VaR page and of the Risk Limits page agree.
C15_EsGuardAndCopies ==
    op \in {"limits", "alpha"} =>
        /\ es_out = limits_out.es
        /\ Len(Obs) < 30 => (IsNaN(es_out) /\ IsNaN(var_out))
        /\ Len(Obs) >= 30 =>
              es_out = TailLoss(Obs, InterpolatedQuantile(Obs, RSub(R(1), alpha)))

\* both pages computed ES on 30 observations whose tail holds the quantile
\* itself and a lower value
C15_Witness ==
    /\ op = "limits"
    /\ Len(Obs) = 30
    /\ ~IsNaN(limits_out.es)
    /\ NumLe(Obs, RNeg(var_out)) > NumLt(Obs, RNeg(var_out))
    /\ NumLt(Obs, RNeg(var_out)) > 0

\* the dates on which both series of the pair are present
AlignedRows == { t \in 1..factor_df.n :
                   ~IsNaN(factor_df.cols["Y"][t]) /\ ~IsNaN(factor_df.cols["X"][t]) }

RECURSIVE SumOver(_, _, _)
\* sum over the dates of T of u[t] * v[t]
SumOver(T, u, v) ==
    IF T = {} THEN R(0)
    ELSE LET t == CHOOSE w \in T : TRUE
         IN  RAdd(RMul(u[t], v[t]), SumOver(T \ {t}, u, v))

\* E[u v] over the aligned dates
Moment(u, v) == RDiv(SumOver(AlignedRows, u, v), R(Cardinality(AlignedRows)))

Ones == [t \in 1..factor_df.n |-> R(1)]

\* population covariance E[uv] - E[u]E[v] over the aligned dates
PopCov(u, v) == RSub(Moment(u, v), RMul(Moment(u, Ones), Moment(v, Ones)))

\* C19: _beta drops every date on which either series is missing; it is 0.0
\* when fewer than 30 aligned dates remain or the population variance of
\* the independent series is 0, otherwise population covariance over
\* population variance on the aligned dates; a non-constant series of at
\* least 30 points has beta 1 against itself.
C19_BetaAligned ==
    op = "beta" =>
        LET y == factor_df.cols["Y"]
            x == factor_df.cols["X"]
        IN  IF Cardinality(AlignedRows) < 30 THEN beta_out = R(0)
            ELSE IF PopCov(x, x) = R(0) THEN beta_out = R(0)
            ELSE /\ RMul(beta_out, PopCov(x, x)) = PopCov(y, x)
                 /\ y = x => beta_out = R(1)

\* 30 aligned dates out of 31 and a beta that is neither 0 nor 1
C19_Witness ==
    /\ op = "beta"
    /\ factor_df.n = 31
    /\ Cardinality(AlignedRows) = 30
    /\ factor_df.cols["Y"] # factor_df.cols["X"]
    /\ beta_out # R(0)
    /\ beta_out # R(1)

----------------------------------------------------------------------------
(* Properties of the coverage-test specification *)

\* the number of days of e showing a and followed by a day showing b
Pairs(e, a, b) == Cardinality({ i \in 1..(Len(e) - 1) : e[i] = a /\ e[i + 1] = b })

\* the number of true entries of e
Trues(e) == Len(SelectSeq(e, LAMBDA v : v))

\* C17 (as claimed): kupiec_test reports n = length and breach_count = number
\* of true entries, gives the undefined sentinel for the likelihood ratio
\* and the p-value exactly when n = 0, and for every n >= 1 returns a defined
\* result without raising.
C17_KupiecDefined ==
    op = "kupiec" =>
        /\ kupiec.raised = ""
        /\ kupiec.value.n = Len(exceed)
        /\ kupiec.value.breaches = Trues(exceed)
        /\ kupiec.value.LR_uc = "nan" <=> Len(exceed) = 0
        /\ kupiec.value.p_value = "nan" <=> Len(exceed) = 0

\* C18: christoffersen_test gives the undefined sentinel exactly when the
\* array holds fewer than 2 entries; otherwise n00, n01, n10, n11 count the
\* consecutive pairs of each kind and sum to length - 1, p01 = n01/(n00+n01)
\* and p11 = n11/(n10+n11), 0 on a zero denominator, and
\* pi = (n01+n11)/(n00+n01+n10+n11).
C18_Transitions ==
    op = "christoffersen" =>
        /\ christoffersen.raised = ""
        /\ christoffersen.value.LR_ind = "nan" <=> Len(exceed) < 2
        /\ christoffersen.value.p_value = "nan" <=> Len(exceed) < 2
        /\ Len(exceed) >= 2 =>
              LET c == christoffersen.value IN
              /\ c.n00 = Pairs(exceed, FALSE, FALSE)
              /\ c.n01 = Pairs(exceed, FALSE, TRUE)
              /\ c.n10 = Pairs(exceed, TRUE, FALSE)
              /\ c.n11 = Pairs(exceed, TRUE, TRUE)
              /\ c.n00 + c.n01 + c.n10 + c.n11 = Len(exceed) - 1
              /\ IF c.n00 + c.n01 = 0 THEN c.p01 = R(0)
                 ELSE RMul(c.p01, R(c.n00 + c.n01)) = R(c.n01)
              /\ IF c.n10 + c.n11 = 0 THEN c.p11 = R(0)
                 ELSE RMul(c.p11, R(c.n10 + c.n11)) = R(c.n11)
              /\ RMul(c.pi, R(Len(exceed) - 1)) = R(c.n01 + c.n11)

\* four days, quiet then three breaches: no transition out of a breach
C18_Witness ==
    /\ op = "christoffersen"
    /\ Len(exceed) = 4
    /\ christoffersen.value.n01 = 1
    /\ christoffersen.value.n10 = 0
    /\ christoffersen.value.n11 = 2
    /\ christoffersen.value.p01 = R(1)
    /\ christoffersen.value.p11 = R(1)

====
